---- MODULE Spec2Model ----
(***************************************************************************)
(* Model of the eywa-axum controller macros: the expansion of a            *)
(* #[controller(...)] impl block (controller.rs, parse.rs) into the router *)
(* wiring, the utoipa documentation stubs and the generated                *)
(* register_paths / register_schemas methods, and the run of the generated *)
(* register_paths and register_schemas over a shared OpenAPI document, and *)
(* the #[route(...)] attribute expanded on its own (route.rs).             *)
(*                                                                         *)
(* Text (Rust String / &str) is a sequence of one-character strings, so    *)
(* that format!, push_str, contains and replace are computed.  Identifiers *)
(* (fn names, type path segments) are plain strings.  Option<T> is a       *)
(* sequence of length 0 (None) or 1 (Some).                                *)
(***************************************************************************)
EXTENDS Integers, Sequences, FiniteSets, TLC

VARIABLES
    args,        \* ControllerArgs of the controller being expanded
    self_ty,     \* last path segment of the impl block's self type (Option<text>)
    items,       \* the impl block's fn items, in declaration order
    expansion,   \* Option: output of controller_impl for (args, self_ty, items)
    openapi,     \* utoipa::openapi::OpenApi.paths.paths: full path -> PathItem
    registered,  \* history: the (path, method, operation) blocks register_paths ran
    next_route,  \* position of the running register_paths in its sequence of blocks
    op_has_tags, \* whether utoipa's Path::operation() carries the annotation's tags
    ncontrollers,\* number of controllers declared so far
    components,  \* utoipa::openapi::Components.schemas: schema name -> schema
    schema_log,  \* history: the (name, schema) pairs register_schemas inserted
    route_out,   \* Option: output of the #[route] attribute expanded on a free fn
    synthesized, \* history: the envelope schema structs the expansions emitted
    pc           \* "declared" | "expanded" | "failed" | "registering" | "registered"
                 \* | "schemas"

vars == <<args, self_ty, items, expansion, openapi, registered, next_route, op_has_tags,
          ncontrollers, components, schema_log, route_out, synthesized, pc>>

----------------------------------------------------------------------------
(* Option<T>                                                               *)

None == <<>>
Some(x) == <<x>>
IsSome(o) == Len(o) = 1
IsNone(o) == Len(o) = 0
Unwrap(o) == o[1]
\* Option::or
OptOr(a, b) == IF IsSome(a) THEN a ELSE b
\* Option<String>::unwrap_or_default, Option<&str>::unwrap_or("")
UnwrapOrEmpty(o) == IF IsSome(o) THEN o[1] ELSE <<>>
UnwrapOr(o, d) == IF IsSome(o) THEN o[1] ELSE d

----------------------------------------------------------------------------
(* Text                                                                    *)

\* s[i..] starts with pat
StartsAt(s, pat, i) ==
    /\ i + Len(pat) - 1 <= Len(s)
    /\ \A k \in 1..Len(pat) : s[i + k - 1] = pat[k]

\* str::contains(&str): substring search
Contains(s, pat) == \E i \in 1..(Len(s) + 1) : StartsAt(s, pat, i)

\* str::replace(pat, to): every non-overlapping match, left to right
RECURSIVE ReplaceFrom(_, _, _, _)
ReplaceFrom(s, pat, to, i) ==
    IF i > Len(s) THEN <<>>
    ELSE IF Len(pat) > 0 /\ StartsAt(s, pat, i)
         THEN to \o ReplaceFrom(s, pat, to, i + Len(pat))
         ELSE <<s[i]>> \o ReplaceFrom(s, pat, to, i + 1)

Replace(s, pat, to) == ReplaceFrom(s, pat, to, 1)

\* concatenation of a sequence of texts
RECURSIVE Concat(_)
Concat(ss) == IF ss = <<>> THEN <<>> ELSE Head(ss) \o Concat(Tail(ss))

\* TokenStream::to_string: the tokens' texts separated by single spaces
RECURSIVE JoinSp(_)
JoinSp(toks) ==
    IF toks = <<>> THEN <<>>
    ELSE IF Len(toks) = 1 THEN toks[1]
    ELSE toks[1] \o <<" ">> \o JoinSp(Tail(toks))

\* the lines of a text, split at "\n" (str::split('\n'))
RECURSIVE SplitFrom(_, _, _)
SplitFrom(s, i, cur) ==
    IF i > Len(s) THEN <<cur>>
    ELSE IF s[i] = "\n" THEN <<cur>> \o SplitFrom(s, i + 1, <<>>)
    ELSE SplitFrom(s, i + 1, Append(cur, s[i]))

Lines(s) == SplitFrom(s, 1, <<>>)

\* the backtick and the double quote, which a TLA+ string cannot hold
BT == "<backtick>"
DQ == "<dquote>"

\* text literals
t_slash == <<"/">>
t_Controller == <<"C","o","n","t","r","o","l","l","e","r">>
t_API == <<"A","P","I">>
t_GET == <<"G","E","T">>
t_200 == <<"2","0","0">>
t_OK == <<"O","K">>
t_401 == <<"4","0","1">>
t_Unauthorized == <<"U","n","a","u","t","h","o","r","i","z","e","d">>
t_500 == <<"5","0","0">>
t_ISE == <<"I","n","t","e","r","n","a","l"," ","s","e","r","v","e","r"," ","e","r","r","o","r">>
t_AvailableLinks == <<"*","*","A","v","a","i","l","a","b","l","e"," ","L","i","n","k","s",":","*","*","\n">>

\* char::to_uppercase on the ASCII letters used here
UpperChar(c) ==
    CASE c = "a" -> "A" [] c = "b" -> "B" [] c = "c" -> "C" [] c = "d" -> "D"
      [] c = "e" -> "E" [] c = "f" -> "F" [] c = "g" -> "G" [] c = "h" -> "H"
      [] c = "i" -> "I" [] c = "j" -> "J" [] c = "k" -> "K" [] c = "l" -> "L"
      [] c = "m" -> "M" [] c = "n" -> "N" [] c = "o" -> "O" [] c = "p" -> "P"
      [] c = "q" -> "Q" [] c = "r" -> "R" [] c = "s" -> "S" [] c = "t" -> "T"
      [] c = "u" -> "U" [] c = "v" -> "V" [] c = "w" -> "W" [] c = "x" -> "X"
      [] c = "y" -> "Y" [] c = "z" -> "Z" [] OTHER -> c

\* str::to_uppercase
to_uppercase(s) == [i \in 1..Len(s) |-> UpperChar(s[i])]

----------------------------------------------------------------------------
(* parse.rs: HttpMethod                                                    *)

HttpMethods == {"Get", "Post", "Put", "Patch", "Delete", "Head", "Options", "Trace"}

\* from_ident that matches the identifier as written
from_ident_CaseSensitive(ident) ==
    LET s == ident IN
    CASE s = <<"G","E","T">> -> Some("Get")
      [] s = <<"P","O","S","T">> -> Some("Post")
      [] s = <<"P","U","T">> -> Some("Put")
      [] s = <<"P","A","T","C","H">> -> Some("Patch")
      [] s = <<"D","E","L","E","T","E">> -> Some("Delete")
      [] s = <<"H","E","A","D">> -> Some("Head")
      [] s = <<"O","P","T","I","O","N","S">> -> Some("Options")
      [] s = <<"T","R","A","C","E">> -> Some("Trace")
      [] OTHER -> None

\* HttpMethod::from_ident: Option<HttpMethod>
from_ident(ident) ==
    LET s == to_uppercase(ident) IN
    CASE s = <<"G","E","T">> -> Some("Get")
      [] s = <<"P","O","S","T">> -> Some("Post")
      [] s = <<"P","U","T">> -> Some("Put")
      [] s = <<"P","A","T","C","H">> -> Some("Patch")
      [] s = <<"D","E","L","E","T","E">> -> Some("Delete")
      [] s = <<"H","E","A","D">> -> Some("Head")
      [] s = <<"O","P","T","I","O","N","S">> -> Some("Options")
      [] s = <<"T","R","A","C","E">> -> Some("Trace")
      [] OTHER -> None

\* HttpMethod::to_axum_method
to_axum_method(m) ==
    CASE m = "Get" -> <<"g","e","t">>
      [] m = "Post" -> <<"p","o","s","t">>
      [] m = "Put" -> <<"p","u","t">>
      [] m = "Patch" -> <<"p","a","t","c","h">>
      [] m = "Delete" -> <<"d","e","l","e","t","e">>
      [] m = "Head" -> <<"h","e","a","d">>
      [] m = "Options" -> <<"o","p","t","i","o","n","s">>
      [] m = "Trace" -> <<"t","r","a","c","e">>

----------------------------------------------------------------------------
(* parse.rs: RouteInfo::parse                                              *)
(* A route attribute is [method: ident text, path: Option<text>,           *)
(* dirs: the comma-separated directives after the path].  A directive is   *)
(* [key, str, list, links, toks, form]: str the string value, list the     *)
(* bracketed strings of tags, links the tuples of links(...), each a       *)
(* sequence of [key, val] pairs, toks the tokens of a group or expression, *)
(* form "eq" | "paren" | "flag" for what follows an unrecognized key.      *)

\* one (rel = .., href = .., method = ..) tuple -> LinkInfo
RECURSIVE ParseLinkFrom(_, _)
ParseLinkFrom(kvs, link) ==
    IF kvs = <<>> THEN link
    ELSE LET kv == Head(kvs)
             nxt == CASE kv.key = "rel" -> [link EXCEPT !.rel = kv.val]
                      [] kv.key = "href" -> [link EXCEPT !.href = kv.val]
                      [] kv.key = "method" -> [link EXCEPT !.method = Some(kv.val)]
                      [] OTHER -> link
         IN ParseLinkFrom(Tail(kvs), nxt)

\* ParseLink that ignores the method key
ParseLink_DropMethod(kvs) ==
    [ParseLinkFrom(kvs, [rel |-> <<>>, href |-> <<>>, method |-> None])
        EXCEPT !.method = None]

\* lines 260-278: one link tuple, all fields unset at first
ParseLink(kvs) == ParseLinkFrom(kvs, [rel |-> <<>>, href |-> <<>>, method |-> None])

\* the match on key_str of the directive loop
ApplyDirective(info, d) ==
    CASE d.key = "summary" -> [info EXCEPT !.summary = Some(d.str)]
      [] d.key = "description" -> [info EXCEPT !.description = Some(d.str)]
      [] d.key = "deprecated" -> [info EXCEPT !.deprecated = TRUE]
      [] d.key = "security" -> [info EXCEPT !.security = TRUE]
      [] d.key = "collection" -> [info EXCEPT !.collection = TRUE]
      [] d.key = "hateoas" -> [info EXCEPT !.hateoas = TRUE]
      [] d.key = "tag" -> [info EXCEPT !.tag = Some(d.str)]
      [] d.key = "tags" -> [info EXCEPT !.tags = Some(d.list)]
      [] d.key = "links" ->
            [info EXCEPT !.links = [i \in 1..Len(d.links) |-> ParseLink(d.links[i])]]
      [] d.key = "responses" -> [info EXCEPT !.responses = Some(d.toks)]
      [] OTHER ->
            [info EXCEPT !.other_attrs = Append(@,
                [id |-> d.key,
                 toks |-> CASE d.form = "eq" -> d.toks
                            [] d.form = "paren" -> <<<<"(">>>> \o d.toks \o <<<<")">>>>
                            [] OTHER -> <<>>])]

RECURSIVE ApplyDirectives(_, _)
ApplyDirectives(info, dirs) ==
    IF dirs = <<>> THEN info
    ELSE ApplyDirectives(ApplyDirective(info, Head(dirs)), Tail(dirs))

EmptyRouteInfo(method, path) ==
    [method |-> method, path |-> path, summary |-> None, description |-> None,
     deprecated |-> FALSE, security |-> FALSE, collection |-> FALSE, hateoas |-> FALSE,
     tag |-> None, tags |-> None, other_attrs |-> <<>>, links |-> <<>>,
     responses |-> None]

\* RouteInfo::parse: [ok, err, info]; info is Some(RouteInfo) iff ok
RouteInfo_parse(tokens) ==
    IF IsNone(from_ident(tokens.method))
    THEN [ok |-> FALSE, err |-> "Invalid HTTP method", info |-> None]
    ELSE IF IsNone(tokens.path)
    THEN [ok |-> FALSE, err |-> "expected string literal", info |-> None]
    ELSE [ok |-> TRUE, err |-> "",
          info |-> Some(ApplyDirectives(
                      EmptyRouteInfo(Unwrap(from_ident(tokens.method)), Unwrap(tokens.path)),
                      tokens.dirs))]

\* controller.rs parse_route_attr
parse_route_attr(attr) == RouteInfo_parse(attr.tokens)

----------------------------------------------------------------------------
(* syn types and patterns, as far as the macro inspects them               *)
(* A type is [kind: "path" | "other", seg: the last path segment's ident,  *)
(* args: its angle-bracketed type arguments].  A pattern is                *)
(* [kind, ident, elems].                                                   *)

Ty(seg, targs) == [kind |-> "path", seg |-> seg, args |-> targs]
OtherTy == [kind |-> "other", seg |-> "", args |-> <<>>]

\* controller.rs extract_json_type
extract_json_type(ty) ==
    IF ty.kind = "path" /\ ty.seg = "Json" /\ Len(ty.args) > 0
    THEN Some(ty.args[1])
    ELSE None

\* controller.rs extract_inner_type: T of Result<Json<T>> or Json<T>
extract_inner_type(ty) ==
    IF ty.kind = "path"
    THEN IF ty.seg = "Result" /\ Len(ty.args) > 0
         THEN extract_json_type(ty.args[1])
         ELSE IF ty.seg = "Json" THEN extract_json_type(ty) ELSE None
    ELSE None

\* controller.rs extract_hateoas_inner_type
extract_hateoas_inner_type(ty) ==
    IF ty.kind = "path" /\ ty.seg = "HateoasResponse" /\ Len(ty.args) > 0
    THEN Some(ty.args[1])
    ELSE None

\* controller.rs collect_pat_idents
RECURSIVE collect_pat_idents(_)
RECURSIVE CollectElems(_)
CollectElems(ps) ==
    IF ps = <<>> THEN <<>> ELSE collect_pat_idents(Head(ps)) \o CollectElems(Tail(ps))

collect_pat_idents(pat) ==
    CASE pat.kind = "Ident" -> <<pat.ident>>
      [] pat.kind \in {"TupleStruct", "Tuple"} -> CollectElems(pat.elems)
      [] pat.kind \in {"Type", "Reference"} -> CollectElems(pat.elems)
      [] OTHER -> <<>>

----------------------------------------------------------------------------
(* attributes and impl items                                               *)

NoTokens == [method |-> <<>>, path |-> None, dirs |-> <<>>]
RouteAttribute(tokens) == [name |-> "route", arg |-> "", tokens |-> tokens]
PlainAttribute(name, arg) == [name |-> name, arg |-> arg, tokens |-> NoTokens]

\* attrs.iter().position(|a| a.path().is_ident("route")): 0 for None
RoutePosition(attrs) ==
    IF \E i \in 1..Len(attrs) : attrs[i].name = "route"
    THEN CHOOSE i \in 1..Len(attrs) :
            /\ attrs[i].name = "route"
            /\ \A j \in 1..(i - 1) : attrs[j].name # "route"
    ELSE 0

\* Vec::remove(idx)
RemoveAt(seq, idx) == SubSeq(seq, 1, idx - 1) \o SubSeq(seq, idx + 1, Len(seq))

\* Vec::retain(|a| !a.path().is_ident("route"))
RetainNonRoute(attrs) == SelectSeq(attrs, LAMBDA a : a.name # "route")

----------------------------------------------------------------------------
(* controller.rs controller_impl: prefix and tag                           *)

\* lines 35-39
version_prefix(cargs) ==
    IF IsSome(cargs.version) THEN t_slash \o Unwrap(cargs.version) ELSE <<>>

\* path_prefix with the legacy prefix consulted first
path_prefix_LegacyFirst(cargs) == UnwrapOrEmpty(OptOr(cargs.prefix, cargs.path))

\* lines 42-45: path, else prefix, else ""
path_prefix(cargs) == UnwrapOrEmpty(OptOr(cargs.path, cargs.prefix))

\* line 48
full_prefix(cargs) == version_prefix(cargs) \o path_prefix(cargs)

\* lines 50-61: the explicit tag, else the type name without "Controller", else "API"
tag(cargs, selfty) ==
    IF IsSome(cargs.tag) THEN Unwrap(cargs.tag)
    ELSE IF IsSome(selfty) THEN Replace(Unwrap(selfty), t_Controller, <<>>)
    ELSE t_API

----------------------------------------------------------------------------
(* controller.rs controller_impl, Phase 1: HATEOAS transformation          *)

\* lines 76-85: the links of the item's route attribute, empty when there is
\* no route attribute or it does not parse
ItemLinks(method) ==
    LET idx == RoutePosition(method.attrs) IN
    IF idx = 0 THEN <<>>
    ELSE LET r == parse_route_attr(method.attrs[idx]) IN
         IF r.ok THEN Unwrap(r.info).links ELSE <<>>

\* impl_method that leaves the route attribute on the renamed method
impl_method_KeepRoute(method) ==
    [method EXCEPT
        !.sig.ident = "__impl_" \o method.sig.ident,
        !.attrs = method.attrs
                    \o <<PlainAttribute("doc", "hidden"),
                         PlainAttribute("allow", "non_snake_case")>>]

\* lines 92-98: the implementation method
impl_method(method) ==
    [method EXCEPT
        !.sig.ident = "__impl_" \o method.sig.ident,
        !.attrs = RetainNonRoute(method.attrs)
                    \o <<PlainAttribute("doc", "hidden"),
                         PlainAttribute("allow", "non_snake_case")>>]

\* lines 123-131: the idents of the typed parameters
ForwardArgs(inputs) ==
    CollectElems([i \in 1..Len(inputs) |->
        IF inputs[i].receiver THEN [kind |-> "Wild", ident |-> "", elems |-> <<>>]
        ELSE inputs[i].pat])

\* link_stmts that emits the statements last link first
link_stmts_Reversed(links) ==
    [i \in 1..Len(links) |->
        [rel |-> links[Len(links) + 1 - i].rel, href |-> links[Len(links) + 1 - i].href,
         method |-> UnwrapOr(links[Len(links) + 1 - i].method, t_GET)]]

\* lines 134-141: one add_link statement per link
link_stmts(links) ==
    [i \in 1..Len(links) |->
        [rel |-> links[i].rel, href |-> links[i].href,
         method |-> UnwrapOr(links[i].method, t_GET)]]

\* wrapper_method that leaves the declared return type on the wrapper
wrapper_method_KeepOutput(method, links, inner_type) ==
    [method EXCEPT
        !.block = [kind |-> "wrapper", body |-> "",
                   call |-> "__impl_" \o method.sig.ident,
                   args |-> ForwardArgs(method.sig.inputs),
                   link_stmts |-> link_stmts(links)]]

\* lines 103-153: the wrapper method for inner type T
wrapper_method(method, links, inner_type) ==
    [method EXCEPT
        !.sig.output = Some(Ty("Result", <<Ty("Json", <<Ty("HateoasResponse", <<inner_type>>)>>)>>)),
        !.block = [kind |-> "wrapper", body |-> "",
                   call |-> "__impl_" \o method.sig.ident,
                   args |-> ForwardArgs(method.sig.inputs),
                   link_stmts |-> link_stmts(links)]]

\* HateoasResponse::new(data) of the runtime crate: the envelope
\* {data, links: mapping<relation, {href, method}>} with no links
HateoasResponse_new(data) == [data |-> data, links |-> [r \in {} |-> <<>>]]

\* HateoasResponse::add_link(rel, link) of the runtime crate: the entry of
\* the relation in the mapping is the link
add_link(h, rel, link) ==
    [h EXCEPT !.links = [r \in DOMAIN h.links \cup {rel} |->
                            IF r = rel THEN link ELSE h.links[r]]]

\* lines 143-151: the wrapper body run on the payload of the implementation
\* method: the envelope after the add_link statements, in their order
RECURSIVE RunLinkStmts(_, _)
RunLinkStmts(h, stmts) ==
    IF stmts = <<>> THEN h
    ELSE RunLinkStmts(add_link(h, Head(stmts).rel,
                               [href |-> Head(stmts).href, method |-> Head(stmts).method]),
                      Tail(stmts))

wrapper_body(block, data) == RunLinkStmts(HateoasResponse_new(data), block.link_stmts)

\* TransformItem that splits every handler with a route attribute, linked or not
TransformItem_AlwaysSplit(item) ==
    IF item.kind # "fn" THEN <<item>>
    ELSE IF RoutePosition(item.attrs) # 0
         THEN LET inner_type_opt ==
                      IF IsSome(item.sig.output)
                      THEN extract_inner_type(Unwrap(item.sig.output))
                      ELSE None
              IN <<impl_method(item)>> \o
                 (IF IsSome(inner_type_opt)
                  THEN <<wrapper_method(item, ItemLinks(item), Unwrap(inner_type_opt))>>
                  ELSE <<item>>)
         ELSE <<item>>

\* lines 73-163, one item: the items pushed to new_items for it
TransformItem(item) ==
    IF item.kind # "fn" THEN <<item>>
    ELSE LET links == ItemLinks(item) IN
         IF links # <<>>
         THEN LET inner_type_opt ==
                      IF IsSome(item.sig.output)
                      THEN extract_inner_type(Unwrap(item.sig.output))
                      ELSE None
              IN <<impl_method(item)>> \o
                 (IF IsSome(inner_type_opt)
                  THEN <<wrapper_method(item, links, Unwrap(inner_type_opt))>>
                  ELSE <<item>>)
         ELSE <<item>>

RECURSIVE Phase1(_)
Phase1(original_items) ==
    IF original_items = <<>> THEN <<>>
    ELSE TransformItem(Head(original_items)) \o Phase1(Tail(original_items))

----------------------------------------------------------------------------
(* controller.rs controller_impl, lines 166-184: route collection          *)

\* the item after the loop body: its first route attribute removed
StripRoute(item) ==
    IF item.kind = "fn" /\ RoutePosition(item.attrs) # 0
    THEN [item EXCEPT !.attrs = RemoveAt(item.attrs, RoutePosition(item.attrs))]
    ELSE item

\* the (fn_name, route_info, sig) pushed for the item, if any
ItemRoute(item) ==
    IF item.kind = "fn" /\ RoutePosition(item.attrs) # 0
    THEN LET r == parse_route_attr(item.attrs[RoutePosition(item.attrs)]) IN
         IF r.ok
         THEN <<[fn_name |-> item.sig.ident, route_info |-> Unwrap(r.info), sig |-> item.sig]>>
         ELSE <<>>
    ELSE <<>>

\* CollectRoutes that stops at the first route attribute it cannot parse
RECURSIVE CollectRoutes_StopAtError(_)
CollectRoutes_StopAtError(its) ==
    IF its = <<>> THEN <<>>
    ELSE IF Head(its).kind = "fn" /\ RoutePosition(Head(its).attrs) # 0
            /\ ItemRoute(Head(its)) = <<>>
         THEN <<>>
         ELSE ItemRoute(Head(its)) \o CollectRoutes_StopAtError(Tail(its))

\* lines 169-184: the routes of the items, in item order
RECURSIVE CollectRoutes(_)
CollectRoutes(its) ==
    IF its = <<>> THEN <<>> ELSE ItemRoute(Head(its)) \o CollectRoutes(Tail(its))

\* route_registrations that emits the entries last route first
route_registrations_Reversed(routes) ==
    [i \in 1..Len(routes) |->
        [path |-> routes[Len(routes) + 1 - i].route_info.path,
         method |-> to_axum_method(routes[Len(routes) + 1 - i].route_info.method),
         handler |-> routes[Len(routes) + 1 - i].fn_name]]

\* lines 187-197
route_registrations(routes) ==
    [i \in 1..Len(routes) |->
        [path |-> routes[i].route_info.path,
         method |-> to_axum_method(routes[i].route_info.method),
         handler |-> routes[i].fn_name]]

\* lines 200-208: Option<Path>::iter, at most one layer
middleware_layers(cargs) ==
    [i \in 1..Len(cargs.middleware) |-> cargs.middleware[i]]

----------------------------------------------------------------------------
(* controller.rs controller_impl, lines 211-397: the utoipa stubs          *)

\* desc_string whose bullets do not end their line
desc_string_NoLineEnd(route_info) ==
    LET base == UnwrapOrEmpty(route_info.description)
        bullets == [i \in 1..Len(route_info.links) |->
                      <<"-", " ", BT>> \o route_info.links[i].rel
                        \o <<BT, ":", " ", BT>>
                        \o UnwrapOr(route_info.links[i].method, <<"G","E","T">>)
                        \o <<" ">> \o route_info.links[i].href \o <<BT>>]
    IN IF route_info.links # <<>>
       THEN (IF base # <<>> THEN base \o <<"\n", "\n">> ELSE base)
              \o t_AvailableLinks \o Concat(bullets)
       ELSE base

\* lines 221-232: the description with the Available Links section
desc_string(route_info) ==
    LET base == UnwrapOrEmpty(route_info.description)
        bullets == [i \in 1..Len(route_info.links) |->
                      <<"-", " ", BT>> \o route_info.links[i].rel
                        \o <<BT, ":", " ", BT>>
                        \o UnwrapOr(route_info.links[i].method, t_GET)
                        \o <<" ">> \o route_info.links[i].href \o <<BT, "\n">>]
    IN IF route_info.links # <<>>
       THEN (IF base # <<>> THEN base \o <<"\n", "\n">> ELSE base)
              \o t_AvailableLinks \o Concat(bullets)
       ELSE base

\* needs_security without the controller flag
needs_security_RouteOnly(route_info, controller_security) == route_info.security

\* line 286
needs_security(route_info, controller_security) ==
    route_info.security \/ controller_security

\* an element of a responses(...) token stream: a token of the user
\* fragment, the comma written by the macro, or a tuple written by the macro
UserToken(t) == [src |-> "user", tok |-> t, status |-> 0, body |-> None, description |-> <<>>]
MacroComma == [src |-> "macro", tok |-> <<",">>, status |-> 0, body |-> None, description |-> <<>>]
MacroEntry(status, body, description) ==
    [src |-> "macro", tok |-> <<>>, status |-> status, body |-> body, description |-> description]

\* lines 314: the name of the synthesized envelope schema
struct_name(fn_name) == "__HateoasSchema_" \o fn_name

\* auto_success that documents a 200 without body for any other return type
auto_success_BodylessFallback(fn_name, method_sig) ==
    IF IsSome(method_sig.output) /\ IsSome(extract_inner_type(Unwrap(method_sig.output)))
    THEN LET inner == Unwrap(extract_inner_type(Unwrap(method_sig.output))) IN
         IF IsSome(extract_hateoas_inner_type(inner))
         THEN <<MacroEntry(200, Some(Ty("__HateoasSchema_" \o fn_name, <<>>)), <<>>)>>
         ELSE <<MacroEntry(200, Some(inner), <<>>)>>
    ELSE <<MacroEntry(200, None, <<>>)>>

\* lines 309-335: the auto 200 entry, empty when the return type has no Json<T>
auto_success(fn_name, method_sig) ==
    IF IsSome(method_sig.output) /\ IsSome(extract_inner_type(Unwrap(method_sig.output)))
    THEN LET inner == Unwrap(extract_inner_type(Unwrap(method_sig.output))) IN
         IF IsSome(extract_hateoas_inner_type(inner))
         THEN <<MacroEntry(200, Some(Ty(struct_name(fn_name), <<>>)), <<>>)>>
         ELSE <<MacroEntry(200, Some(inner), <<>>)>>
    ELSE <<>>

\* lines 315-322: the struct emitted next to the stub
extra_structs(fn_name, method_sig) ==
    IF IsSome(method_sig.output) /\ IsSome(extract_inner_type(Unwrap(method_sig.output)))
    THEN LET inner == Unwrap(extract_inner_type(Unwrap(method_sig.output))) IN
         IF IsSome(extract_hateoas_inner_type(inner))
         THEN <<[name |-> struct_name(fn_name),
                 data |-> Unwrap(extract_hateoas_inner_type(inner))]>>
         ELSE <<>>
    ELSE <<>>

\* line 324, 381: the stub's return type
stub_output(fn_name, method_sig) ==
    IF extra_structs(fn_name, method_sig) # <<>>
    THEN Some(Ty("Json", <<Ty(struct_name(fn_name), <<>>)>>))
    ELSE method_sig.output

\* lines 338-339
user_token_str(route_info) ==
    IF IsSome(route_info.responses) THEN JoinSp(Unwrap(route_info.responses)) ELSE <<>>

\* final_success that looks for the status code only
final_success_StatusOnly(fn_name, route_info, method_sig) ==
    IF ~Contains(user_token_str(route_info), <<"2","0","0">>)
    THEN auto_success(fn_name, method_sig)
    ELSE <<>>

\* lines 341-345
final_success(fn_name, route_info, method_sig) ==
    IF ~Contains(user_token_str(route_info), t_200)
       /\ ~Contains(user_token_str(route_info), t_OK)
    THEN auto_success(fn_name, method_sig)
    ELSE <<>>

\* auto_401 that looks for the status code only
auto_401_StatusOnly(route_info) ==
    IF ~Contains(user_token_str(route_info), <<"4","0","1">>)
    THEN <<[src |-> "macro", tok |-> <<>>, status |-> 401, body |-> None,
            description |-> <<"U","n","a","u","t","h","o","r","i","z","e","d">>]>>
    ELSE <<>>

\* lines 347-352
auto_401(route_info) ==
    IF ~Contains(user_token_str(route_info), t_401)
       /\ ~Contains(user_token_str(route_info), t_Unauthorized)
    THEN <<MacroEntry(401, None, t_Unauthorized)>>
    ELSE <<>>

\* lines 354-360
auto_500(route_info) ==
    IF ~Contains(user_token_str(route_info), t_500)
       /\ ~Contains(user_token_str(route_info), t_ISE)
    THEN <<MacroEntry(500, None, t_ISE)>>
    ELSE <<>>

\* combined_responses with the generated entries written first
combined_responses_AutosFirst(fn_name, route_info, method_sig) ==
    LET autos == final_success(fn_name, route_info, method_sig)
                   \o auto_401(route_info) \o auto_500(route_info)
    IN IF IsSome(route_info.responses)
       THEN autos \o <<MacroComma>>
              \o [i \in 1..Len(Unwrap(route_info.responses)) |->
                    UserToken(Unwrap(route_info.responses)[i])]
       ELSE autos

\* lines 362-366
combined_responses(fn_name, route_info, method_sig) ==
    LET autos == final_success(fn_name, route_info, method_sig)
                   \o auto_401(route_info) \o auto_500(route_info)
    IN IF IsSome(route_info.responses)
       THEN [i \in 1..Len(Unwrap(route_info.responses)) |->
                UserToken(Unwrap(route_info.responses)[i])]
              \o <<MacroComma>> \o autos
       ELSE autos

\* lines 237-373: the body of the #[utoipa::path(...)] attribute of the stub
utoipa_body(fn_name, route_info, method_sig, cargs, selfty) ==
    [method |-> to_axum_method(route_info.method),
     path |-> full_prefix(cargs) \o route_info.path,
     summary |-> IF UnwrapOrEmpty(route_info.summary) # <<>>
                 THEN Some(UnwrapOrEmpty(route_info.summary)) ELSE None,
     description |-> IF desc_string(route_info) # <<>>
                     THEN Some(desc_string(route_info)) ELSE None,
     tags |-> route_info.tags,
     tag |-> IF IsSome(route_info.tags) THEN None
             ELSE IF IsSome(route_info.tag) THEN route_info.tag
             ELSE Some(tag(cargs, selfty)),
     deprecated |-> route_info.deprecated,
     security |-> needs_security(route_info, cargs.security),
     others |-> route_info.other_attrs,
     responses |-> combined_responses(fn_name, route_info, method_sig)]

\* lines 375-395: the stub fn and the struct emitted with it
utoipa_wrapper(route, cargs, selfty) ==
    [fn_name |-> route.fn_name,
     utoipa_body |-> utoipa_body(route.fn_name, route.route_info, route.sig, cargs, selfty),
     inputs |-> SelectSeq(route.sig.inputs, LAMBDA a : ~a.receiver),
     output |-> stub_output(route.fn_name, route.sig),
     extra_structs |-> extra_structs(route.fn_name, route.sig)]

\* openapi_path that prefers the tag of the route and takes the description
\* of the stub annotation
openapi_path_AsStub(route, cargs, selfty) ==
    [path |-> full_prefix(cargs) \o route.route_info.path,
     method |-> to_uppercase(to_axum_method(route.route_info.method)),
     summary |-> UnwrapOrEmpty(route.route_info.summary),
     description |-> desc_string(route.route_info),
     tag |-> UnwrapOr(route.route_info.tag, tag(cargs, selfty))]

\* lines 400-419: one OpenApiPath per route
openapi_path(route, cargs, selfty) ==
    [path |-> full_prefix(cargs) \o route.route_info.path,
     method |-> to_uppercase(to_axum_method(route.route_info.method)),
     summary |-> UnwrapOrEmpty(route.route_info.summary),
     description |-> UnwrapOrEmpty(route.route_info.description),
     tag |-> tag(cargs, selfty)]

\* lines 315-322, 391: the structs the stubs of one controller emit into its
\* __UTOIPA_PATHS__ module, in stub order; the schema name of a struct is
\* its ident
RECURSIVE EmittedStructs(_, _)
EmittedStructs(wrappers, controller) ==
    IF wrappers = <<>> THEN <<>>
    ELSE [i \in 1..Len(Head(wrappers).extra_structs) |->
            [controller |-> controller, fn_name |-> Head(wrappers).fn_name,
             name |-> Head(wrappers).extra_structs[i].name,
             data |-> Head(wrappers).extra_structs[i].data]]
         \o EmittedStructs(Tail(wrappers), controller)

\* lines 12-581: the expansion of one #[controller(...)] impl block
controller_impl(cargs, selfty, its) ==
    IF IsNone(cargs.state)
    THEN [error |-> TRUE, impl_items |-> <<>>, routes |-> <<>>,
          route_registrations |-> <<>>, middleware_layers |-> <<>>,
          utoipa_wrappers |-> <<>>, openapi_routes |-> <<>>, path_structs |-> <<>>,
          prefix |-> <<>>, tag |-> <<>>, PATH_NAMES |-> <<>>, PATH_COUNT |-> 0,
          schema_types |-> <<>>]
    ELSE LET new_items == Phase1(its)
             routes == CollectRoutes(new_items)
         IN [error |-> FALSE,
             impl_items |-> [i \in 1..Len(new_items) |-> StripRoute(new_items[i])],
             routes |-> routes,
             route_registrations |-> route_registrations(routes),
             middleware_layers |-> middleware_layers(cargs),
             utoipa_wrappers |->
                [i \in 1..Len(routes) |-> utoipa_wrapper(routes[i], cargs, selfty)],
             openapi_routes |->
                [i \in 1..Len(routes) |-> openapi_path(routes[i], cargs, selfty)],
             path_structs |-> [i \in 1..Len(routes) |-> "__path_" \o routes[i].fn_name],
             prefix |-> full_prefix(cargs),
             tag |-> tag(cargs, selfty),
             PATH_NAMES |-> [i \in 1..Len(routes) |-> routes[i].fn_name],
             PATH_COUNT |-> Len(routes),
             schema_types |-> cargs.schemas]

----------------------------------------------------------------------------
(* the generated register_paths (lines 472-528) and what it reads from     *)
(* utoipa's Path impl of the stub                                          *)

\* <__path_fn as utoipa::Path>::methods(): the one method of the annotation
Path_methods(body) == <<CHOOSE m \in HttpMethods : to_axum_method(m) = body.method>>

\* <__path_fn as utoipa::Path>::operation(): the operation of the annotation;
\* has_tags says whether the library puts the annotation's tags into it
Path_operation(stub, has_tags) ==
    [operation_id |-> stub.fn_name,
     summary |-> stub.utoipa_body.summary,
     description |-> stub.utoipa_body.description,
     tags |-> IF ~has_tags THEN None
              ELSE IF IsSome(stub.utoipa_body.tags) THEN stub.utoipa_body.tags
              ELSE Some(<<Unwrap(stub.utoipa_body.tag)>>),
     deprecated |-> stub.utoipa_body.deprecated,
     security |-> stub.utoipa_body.security,
     responses |-> stub.utoipa_body.responses]

\* lines 483-487: the controller tag pushed onto the operation's tags
PushTag(operation, ctag) ==
    IF ctag # <<>>
    THEN [operation EXCEPT !.tags = Some(Append(UnwrapOrEmpty(@), ctag))]
    ELSE operation

\* NewPathItem with the operation always put into the get slot
NewPathItem_GetSlot(methods, operation) ==
    [m \in HttpMethods |-> IF m = "Get" THEN Some(operation) ELSE None]

\* lines 491-511: PathItem::new(first_method, operation) and the remaining methods
NewPathItem(methods, operation) ==
    [m \in HttpMethods |->
        IF \E i \in 1..Len(methods) : methods[i] = m THEN Some(operation) ELSE None]

\* MergeOrInsert without the merge: the new item replaces the path's item
MergeOrInsert_Replace(paths, path, item) ==
    [p \in DOMAIN paths \cup {path} |-> IF p = path THEN item ELSE paths[p]]

\* MergeOrInsert that fills empty slots only
MergeOrInsert_KeepFirst(paths, path, item) ==
    IF path \in DOMAIN paths
    THEN [paths EXCEPT ![path] =
            [m \in HttpMethods |-> IF IsSome(@[m]) THEN @[m] ELSE item[m]]]
    ELSE [p \in DOMAIN paths \cup {path} |-> IF p = path THEN item ELSE paths[p]]

\* lines 514-525: merge into the existing item of the path, or insert
MergeOrInsert(paths, path, item) ==
    IF path \in DOMAIN paths
    THEN [paths EXCEPT ![path] =
            [m \in HttpMethods |-> IF IsSome(item[m]) THEN item[m] ELSE @[m]]]
    ELSE [p \in DOMAIN paths \cup {path} |-> IF p = path THEN item ELSE paths[p]]

\* the operation the block of one stub registers
BlockOperation(stub, ctag, has_tags) == PushTag(Path_operation(stub, has_tags), ctag)

\* one block of register_paths: the stub's operation merged into paths
RegisterBlock(paths, stub, ctag, has_tags) ==
    MergeOrInsert(paths, stub.utoipa_body.path,
                  NewPathItem(Path_methods(stub.utoipa_body),
                              BlockOperation(stub, ctag, has_tags)))

----------------------------------------------------------------------------
(* the generated into_router (lines 434-439) and the axum Router it builds *)

\* the calls of the builder chain; a call is [op, path, method, handler, layer]
RouteCall(reg) ==
    [op |-> "route", path |-> reg.path, method |-> reg.method, handler |-> reg.handler,
     layer |-> ""]
LayerCall(m) == [op |-> "layer", path |-> <<>>, method |-> <<>>, handler |-> "", layer |-> m]
WithStateCall == [op |-> "with_state", path |-> <<>>, method |-> <<>>, handler |-> "",
                  layer |-> ""]

\* the chain with the layers ahead of the routes
into_router_calls_LayersFirst(e) ==
    [i \in 1..Len(e.middleware_layers) |-> LayerCall(e.middleware_layers[i])]
      \o [i \in 1..Len(e.route_registrations) |-> RouteCall(e.route_registrations[i])]
      \o <<WithStateCall>>

\* lines 435-438: Router::new() #(route_registrations)* #(middleware_layers)*
\* .with_state(state)
into_router_calls(e) ==
    [i \in 1..Len(e.route_registrations) |-> RouteCall(e.route_registrations[i])]
      \o [i \in 1..Len(e.middleware_layers) |-> LayerCall(e.middleware_layers[i])]
      \o <<WithStateCall>>

\* axum Router: route adds a route, layer wraps the routes added so far (the
\* layer added last is the outermost), with_state binds the state
Router_new == [routes |-> <<>>, with_state |-> FALSE]
Router_apply(router, call) ==
    CASE call.op = "route" ->
            [router EXCEPT !.routes = Append(@,
                [path |-> call.path, method |-> call.method, handler |-> call.handler,
                 layers |-> <<>>])]
      [] call.op = "layer" ->
            [router EXCEPT !.routes =
                [i \in 1..Len(@) |-> [@[i] EXCEPT !.layers = <<call.layer>> \o @]]]
      [] OTHER -> [router EXCEPT !.with_state = TRUE]

RECURSIVE Router_build(_, _)
Router_build(router, calls) ==
    IF calls = <<>> THEN router
    ELSE Router_build(Router_apply(router, Head(calls)), Tail(calls))

\* lines 434-439: the router into_router returns
into_router(e) == Router_build(Router_new, into_router_calls(e))

----------------------------------------------------------------------------
(* the generated register_schemas (lines 459-469)                          *)

\* a type of the schemas(...) list with what its ToSchema::name() and
\* PartialSchema::schema() return
SchemaType(ty, name, schema) == [ty |-> ty, name |-> name, schema |-> schema]

\* BTreeMap::insert(name, schema)
InsertSchema(schemas, name, schema) ==
    [n \in DOMAIN schemas \cup {name} |-> IF n = name THEN schema ELSE schemas[n]]

\* register_schemas that keeps the entry a name already has
RECURSIVE RegisterSchemas_KeepFirst(_, _)
RegisterSchemas_KeepFirst(schemas, schema_types) ==
    IF schema_types = <<>> THEN schemas
    ELSE RegisterSchemas_KeepFirst(
            IF Head(schema_types).name \in DOMAIN schemas THEN schemas
            ELSE InsertSchema(schemas, Head(schema_types).name, Head(schema_types).schema),
            Tail(schema_types))

\* lines 459-469: one insert per schema type, in list order
RECURSIVE RegisterSchemas(_, _)
RegisterSchemas(schemas, schema_types) ==
    IF schema_types = <<>> THEN schemas
    ELSE RegisterSchemas(
            InsertSchema(schemas, Head(schema_types).name, Head(schema_types).schema),
            Tail(schema_types))

----------------------------------------------------------------------------
(* route.rs: the #[route(...)] attribute expanded on its own               *)

IsPathTy(ty) == ty.kind = "path"
FirstArgIsPath(ty) == Len(ty.args) > 0 /\ IsPathTy(ty.args[1])

\* route.rs lines 58-91: the last Json<T> parameter is the request body
request_body_type(inputs) ==
    LET js == SelectSeq(inputs, LAMBDA a :
                  ~a.receiver /\ IsPathTy(a.ty) /\ a.ty.seg = "Json" /\ FirstArgIsPath(a.ty))
    IN IF js = <<>> THEN None ELSE Some(js[Len(js)].ty.args[1])

\* route.rs lines 72-87: an Extension<UserId> parameter requires security
security_required(inputs) ==
    \E i \in 1..Len(inputs) :
        /\ ~inputs[i].receiver /\ IsPathTy(inputs[i].ty) /\ inputs[i].ty.seg = "Extension"
        /\ FirstArgIsPath(inputs[i].ty) /\ inputs[i].ty.args[1].seg = "UserId"

\* route.rs lines 94-123: T of Result<Json<T>> or ApiResult<Json<T>>
response_type(output) ==
    IF /\ IsSome(output) /\ IsPathTy(output[1]) /\ output[1].seg \in {"Result", "ApiResult"}
       /\ FirstArgIsPath(output[1]) /\ output[1].args[1].seg = "Json"
       /\ FirstArgIsPath(output[1].args[1])
    THEN Some(output[1].args[1].args[1])
    ELSE None

\* route.rs lines 47-210
generate_utoipa_attribute(func, method, path, route_info) ==
    [method |-> method,
     path |-> path,
     summary |-> IF UnwrapOrEmpty(route_info.summary) # <<>>
                 THEN Some(UnwrapOrEmpty(route_info.summary)) ELSE None,
     description |-> IF UnwrapOrEmpty(route_info.description) # <<>>
                     THEN Some(UnwrapOrEmpty(route_info.description)) ELSE None,
     tags |-> route_info.tags,
     tag |-> IF IsSome(route_info.tags) THEN None ELSE route_info.tag,
     request_body |-> request_body_type(func.sig.inputs),
     responses |-> IF IsSome(response_type(func.sig.output))
                   THEN <<MacroEntry(200, response_type(func.sig.output),
                                     <<"S","u","c","c","e","s","s">>),
                          MacroEntry(401, None, t_Unauthorized),
                          MacroEntry(500, None, t_ISE)>>
                   ELSE <<>>,
     security |-> security_required(func.sig.inputs) \/ route_info.security,
     deprecated |-> route_info.deprecated]

\* route.rs lines 10-43: the parse error of the attribute or of the item as
\* a compile error, else the annotated fn and its __ROUTE_INFO_ const
route_impl(tokens, input) ==
    LET r == RouteInfo_parse(tokens) IN
    IF ~r.ok
    THEN [compile_error |-> Some(r.err), utoipa_attr |-> None, func |-> None,
          route_const |-> None]
    ELSE IF input.kind # "fn"
    THEN [compile_error |-> Some("expected fn"), utoipa_attr |-> None, func |-> None,
          route_const |-> None]
    ELSE [compile_error |-> None,
          utoipa_attr |-> Some(generate_utoipa_attribute(input,
                              to_axum_method(Unwrap(r.info).method),
                              Unwrap(r.info).path, Unwrap(r.info))),
          func |-> Some(input),
          route_const |-> Some([of |-> input.sig.ident,
                                method |-> to_axum_method(Unwrap(r.info).method),
                                path |-> Unwrap(r.info).path])]

----------------------------------------------------------------------------
(* inputs: constructors for attributes, handlers and controller arguments  *)

DStr(key, str) ==
    [key |-> key, str |-> str, list |-> <<>>, links |-> <<>>, toks |-> <<>>, form |-> ""]
DFlag(key) ==
    [key |-> key, str |-> <<>>, list |-> <<>>, links |-> <<>>, toks |-> <<>>, form |-> ""]
DTags(list) ==
    [key |-> "tags", str |-> <<>>, list |-> list, links |-> <<>>, toks |-> <<>>, form |-> ""]
DLinks(links) ==
    [key |-> "links", str |-> <<>>, list |-> <<>>, links |-> links, toks |-> <<>>, form |-> ""]
DResponses(toks) ==
    [key |-> "responses", str |-> <<>>, list |-> <<>>, links |-> <<>>, toks |-> toks, form |-> ""]
DOther(key, form, toks) ==
    [key |-> key, str |-> <<>>, list |-> <<>>, links |-> <<>>, toks |-> toks, form |-> form]

KV(key, val) == [key |-> key, val |-> val]

\* async fn name(inputs) -> output, carrying #[route(method path, dirs)]
Handler(name, method, path, dirs, inputs, output) ==
    [kind |-> "fn",
     attrs |-> <<RouteAttribute([method |-> method, path |-> Some(path), dirs |-> dirs])>>,
     sig |-> [ident |-> name, inputs |-> inputs, output |-> output],
     block |-> [kind |-> "original", body |-> name, call |-> "", args |-> <<>>,
                link_stmts |-> <<>>]]

ControllerArgs(version, path, prefix, state, ctag, security) ==
    [version |-> version, path |-> path, prefix |-> prefix, state |-> state,
     tag |-> ctag, middleware |-> <<>>, security |-> security, schemas |-> <<>>]

PatIdent(name) == [kind |-> "Ident", ident |-> name, elems |-> <<>>]
\* a typed parameter pat: ty; Param leaves the type one the macros do not inspect
TypedParam(pat, ty) == [receiver |-> FALSE, pat |-> pat, ty |-> ty]
Param(pat) == TypedParam(pat, OtherTy)

\* texts of the inputs
t_w == <<"/","w">>
t_x == <<"/","x">>
t_v1 == <<"v","1">>
t_v2 == <<"v","2">>
t_items == <<"/","i","t","e","m","s">>
t_old == <<"/","o","l","d">>
t_A == <<"A">>
t_B == <<"B">>
t_C == <<"C">>
t_D == <<"D">>
t_WController == <<"W","C","o","n","t","r","o","l","l","e","r">>
m_GET == <<"G","E","T">>
m_POST == <<"P","O","S","T">>
m_post == <<"p","o","s","t">>

JsonOf(seg) == Some(Ty("Json", <<Ty(seg, <<>>)>>))
ResultJsonOf(seg) == Some(Ty("Result", <<Ty("Json", <<Ty(seg, <<>>)>>)>>))

----------------------------------------------------------------------------
(* the controllers of the pipeline specification                           *)

MaxHandlers == 2
MaxControllers == 2

\* handlers that meet at one full path: two methods, and two handlers of one
\* method that differ in their documentation
PoolHandlers ==
    {Handler("list", m_GET, t_w, <<DStr("summary", <<"a">>)>>, <<>>, JsonOf("W")),
     Handler("create", m_POST, t_w, <<DTags(<<t_A, t_B>>)>>, <<>>, ResultJsonOf("W")),
     Handler("show", m_GET, t_w, <<DStr("summary", <<"b">>), DStr("tag", t_D)>>, <<>>,
             JsonOf("W"))}

\* sequences of at most n handlers with distinct fn names
RECURSIVE DistinctSeqs(_, _)
DistinctSeqs(S, n) ==
    IF n = 0 THEN {<<>>}
    ELSE LET shorter == DistinctSeqs(S, n - 1) IN
         shorter \cup
         {Append(p[1], p[2]) :
            p \in {p \in shorter \X S :
                     /\ Len(p[1]) = n - 1
                     /\ \A i \in 1..Len(p[1]) : p[1][i].sig.ident # p[2].sig.ident}}

PoolArgs ==
    {ControllerArgs(v, None, None, Some("AppState"), Some(t_C), FALSE) :
        v \in {None, Some(t_v1)}}

PoolInputs ==
    {[args |-> a, self_ty |-> Some(t_WController), items |-> its] :
        a \in PoolArgs, its \in DistinctSeqs(PoolHandlers, MaxHandlers)}

----------------------------------------------------------------------------
(* the build: controllers are expanded one after the other, and the        *)
(* generated register_paths of each runs on one shared OpenApi             *)

NoPaths == [p \in {} |-> <<>>]

InitWith(inputs) ==
    /\ \E c \in inputs : args = c.args /\ self_ty = c.self_ty /\ items = c.items
    /\ expansion = None
    /\ openapi = NoPaths
    /\ registered = <<>>
    /\ next_route = 0
    /\ op_has_tags \in BOOLEAN
    /\ ncontrollers = 1
    /\ components = [n \in {} |-> ""]
    /\ schema_log = <<>>
    /\ route_out = None
    /\ synthesized = <<>>
    /\ pc = "declared"

Init == InitWith(PoolInputs)

\* the compiler expands the #[controller] attribute of the declared impl block
Expand ==
    /\ pc = "declared"
    /\ LET e == controller_impl(args, self_ty, items) IN
         /\ expansion' = Some(e)
         /\ synthesized' = synthesized \o EmittedStructs(e.utoipa_wrappers, ncontrollers)
         /\ pc' = IF e.error THEN "failed" ELSE "expanded"
    /\ UNCHANGED <<args, self_ty, items, openapi, registered, next_route, op_has_tags,
                   ncontrollers, components, schema_log, route_out>>

\* the generated register_paths, one block of its sequence of blocks per step
register_paths ==
    /\ pc \in {"expanded", "registering"}
    /\ LET e == Unwrap(expansion)
           i == IF pc = "expanded" THEN 1 ELSE next_route
           n == Len(e.utoipa_wrappers)
       IN \/ /\ i <= n
             /\ openapi' = RegisterBlock(openapi, e.utoipa_wrappers[i], e.tag, op_has_tags)
             /\ registered' = Append(registered,
                    [path |-> e.utoipa_wrappers[i].utoipa_body.path,
                     method |-> Path_methods(e.utoipa_wrappers[i].utoipa_body)[1],
                     operation |-> BlockOperation(e.utoipa_wrappers[i], e.tag, op_has_tags)])
             /\ next_route' = IF i = n THEN 0 ELSE i + 1
             /\ pc' = IF i = n THEN "registered" ELSE "registering"
          \/ /\ n = 0
             /\ pc' = "registered"
             /\ UNCHANGED <<openapi, registered, next_route>>
    /\ UNCHANGED <<args, self_ty, items, expansion, op_has_tags, ncontrollers,
                   components, schema_log, route_out, synthesized>>

\* the next controller of the crate
Declare ==
    /\ pc \in {"registered", "failed"}
    /\ ncontrollers < MaxControllers
    /\ \E c \in PoolInputs : args' = c.args /\ self_ty' = c.self_ty /\ items' = c.items
    /\ expansion' = None
    /\ ncontrollers' = ncontrollers + 1
    /\ pc' = "declared"
    /\ UNCHANGED <<openapi, registered, next_route, op_has_tags, components, schema_log,
                   route_out, synthesized>>

Next == Expand \/ register_paths \/ Declare

Spec == Init /\ [][Next]_vars

----------------------------------------------------------------------------
(* the inputs of the single-handler specification: one controller with one *)
(* handler, drawn from three families                                      *)

MaxFragLen == 2
MaxLinks == 2

\* all sequences over S of length at most n
RECURSIVE SeqsUpTo(_, _)
SeqsUpTo(S, n) ==
    IF n = 0 THEN {<<>>}
    ELSE LET shorter == SeqsUpTo(S, n - 1) IN
         shorter \cup {Append(q, x) : q \in {r \in shorter : Len(r) = n - 1}, x \in S}

\* (1) tags, security and prefix: every combination of the controller
\* arguments with every combination of the route's tags, tag and security
TagDirs ==
    {ts \o tg \o sc :
        ts \in {<<>>, <<DTags(<<t_A, t_B>>)>>, <<DTags(<<>>)>>},
        tg \in {<<>>, <<DStr("tag", t_D)>>},
        sc \in {<<>>, <<DFlag("security")>>}}

TagArgs ==
    {ControllerArgs(v, p, x, Some("AppState"), ct, sec) :
        v \in {None, Some(t_v2)}, p \in {None, Some(t_items)}, x \in {None, Some(t_old)},
        ct \in {None, Some(t_C)}, sec \in BOOLEAN}

TagInputs ==
    {[args |-> a, self_ty |-> Some(t_WController),
      items |-> <<Handler("list", m_GET, t_w, d, <<>>, JsonOf("W"))>>] :
        a \in TagArgs, d \in TagDirs}

\* (2) responses: fragments of up to MaxFragLen tokens, every return shape
t_404 == <<"4","0","4">>
t_TOKEN == <<"T","O","K","E","N">>
t_20 == <<"2","0">>
t_0 == <<"0">>
lit_ISE == <<DQ>> \o t_ISE \o <<DQ>>

FragmentTokens ==
    {t_200, t_OK, t_401, t_Unauthorized, t_500, lit_ISE, t_404, t_TOKEN, t_20, t_0}

ResponseDirs ==
    {<<>>} \cup {<<DResponses(f)>> : f \in SeqsUpTo(FragmentTokens, MaxFragLen)}

OneLink == <<DLinks(<<<<KV("rel", <<"a">>), KV("href", t_x)>>>>)>>

ReturnTypes ==
    {None, JsonOf("W"), ResultJsonOf("W"), Some(Ty("Vec", <<Ty("W", <<>>)>>)),
     Some(Ty("Json", <<Ty("HateoasResponse", <<Ty("W", <<>>)>>)>>)), Some(OtherTy)}

ResponseInputs ==
    {[args |-> ControllerArgs(None, None, None, Some("AppState"), Some(t_C), FALSE),
      self_ty |-> Some(t_WController),
      items |-> <<Handler("list", m_post, t_w, r \o sc \o l, <<>>, ret)>>] :
        r \in ResponseDirs, sc \in {<<>>, <<DFlag("security")>>},
        l \in {<<>>, OneLink}, ret \in ReturnTypes}

\* (3) links: up to MaxLinks link tuples, duplicates of a relation included
LinkTuples ==
    {<<KV("rel", <<"a">>), KV("href", t_x)>>,
     <<KV("rel", <<"b">>), KV("href", t_w), KV("method", m_POST)>>,
     <<KV("method", <<"P","U","T">>), KV("rel", <<"a">>), KV("href", t_w)>>,
     <<KV("rel", <<"c">>), KV("method", m_post), KV("href", t_x)>>}

t_d == <<"d">>
t_bullet_d == <<"-"," ","d">>

LinkInputs ==
    {[args |-> ControllerArgs(None, None, None, Some("AppState"), Some(t_C), FALSE),
      self_ty |-> Some(t_WController),
      items |-> <<Handler("show", m_GET, t_w, desc \o <<DLinks(ls)>>,
                          <<Param(PatIdent("id"))>>, ret)>>] :
        desc \in {<<>>, <<DStr("description", t_d)>>, <<DStr("description", t_bullet_d)>>},
        ls \in SeqsUpTo(LinkTuples, MaxLinks),
        ret \in {JsonOf("W"), Some(Ty("Vec", <<Ty("W", <<>>)>>))}}

\* (4) directives the macro does not know, in the three forms name = expr,
\* name(group) and bare name, between directives it knows
MaxOther == 2

OtherDirs ==
    {DOther("operation_id", "eq", <<<<DQ, "o", "p", DQ>>>>),
     DOther("params", "paren", <<<<"P">>, <<",">>, <<"Q">>>>),
     DOther("flagged", "flag", <<>>),
     DStr("summary", <<"a">>)}

OtherInputs ==
    {[args |-> ControllerArgs(None, None, None, Some("AppState"), Some(t_C), FALSE),
      self_ty |-> Some(t_WController),
      items |-> <<Handler("list", m_GET, t_w, ds, <<>>, JsonOf("W"))>>] :
        ds \in SeqsUpTo(OtherDirs, MaxOther)}

\* (5) parameters: a linked handler with up to MaxParams parameters of every
\* pattern shape collect_pat_idents tells apart
MaxParams == 2

Pat(kind, elems) == [kind |-> kind, ident |-> "", elems |-> elems]
Receiver == [receiver |-> TRUE, pat |-> Pat("Wild", <<>>), ty |-> OtherTy]

ParamPool ==
    {Param(PatIdent("state")),
     Param(Pat("TupleStruct", <<PatIdent("id")>>)),
     Param(Pat("Tuple", <<PatIdent("a"), PatIdent("b")>>)),
     Param(Pat("Reference", <<PatIdent("r")>>)),
     Param(Pat("Wild", <<>>)),
     Param(Pat("Struct", <<PatIdent("f")>>)),
     Receiver}

ParamInputs ==
    {[args |-> ControllerArgs(None, None, None, Some("AppState"), Some(t_C), FALSE),
      self_ty |-> Some(t_WController),
      items |-> <<Handler("show", m_GET, t_w, OneLink, ps, ResultJsonOf("W"))>>] :
        ps \in SeqsUpTo(ParamPool, MaxParams)}

DocInputs ==
    TagInputs \cup ResponseInputs \cup LinkInputs \cup OtherInputs \cup ParamInputs

InitDoc == InitWith(DocInputs)

SpecDoc == InitDoc /\ [][Expand]_vars

----------------------------------------------------------------------------
(* the inputs of the controller specification: impl blocks of several      *)
(* items, some of them with a route attribute that does not parse; self    *)
(* types and tags; schema lists                                            *)

MaxItems == 3

t_FETCH == <<"F","E","T","C","H">>
t_Widget == <<"W","i","d","g","e","t">>
t_Gadget == <<"G","a","d","g","e","t">>

\* fn name() without a route attribute
PlainFn(name) ==
    [kind |-> "fn", attrs |-> <<PlainAttribute("inline", "")>>,
     sig |-> [ident |-> name, inputs |-> <<>>, output |-> None],
     block |-> [kind |-> "original", body |-> name, call |-> "", args |-> <<>>,
                link_stmts |-> <<>>]]

\* an impl item that is not a fn (const NAME: .. = ..;)
ConstItem(name) == [PlainFn(name) EXCEPT !.kind = "const", !.attrs = <<>>]

\* async fn name() carrying #[route(method)] with no path literal
HandlerNoPath(name, method) ==
    [PlainFn(name) EXCEPT
        !.attrs = <<RouteAttribute([method |-> method, path |-> None, dirs |-> <<>>])>>]

CtlItems ==
    {Handler("list", m_GET, t_w, <<>>, <<>>, JsonOf("W")),
     Handler("create", m_post, t_w,
             <<DStr("tag", t_A), DTags(<<t_B>>), DStr("summary", <<"s">>)>>,
             <<TypedParam(PatIdent("body"), Ty("Json", <<Ty("W", <<>>)>>))>>,
             ResultJsonOf("W")),
     Handler("show", m_GET, t_x, <<DStr("description", t_d)>> \o OneLink,
             <<Param(PatIdent("id"))>>, JsonOf("W")),
     Handler("fetch", t_FETCH, t_x, <<>>, <<>>, JsonOf("W")),
     HandlerNoPath("bare", m_GET),
     PlainFn("helper"),
     ConstItem("LIMIT")}

WireInputs ==
    {[args |-> ControllerArgs(None, Some(t_items), None, Some("AppState"), Some(t_C), FALSE),
      self_ty |-> Some(t_WController), items |-> its] :
        its \in DistinctSeqs(CtlItems, MaxItems)}

\* self types: WController, W, ControllerW, WControllerHub, Controller, and
\* a self type that is not a path; tags: none, "C", "CController"
SelfTypes ==
    {Some(t_WController), Some(<<"W">>), Some(t_Controller \o <<"W">>),
     Some(t_WController \o <<"H","u","b">>), Some(t_Controller), None}

NameInputs ==
    {[args |-> ControllerArgs(None, None, None, Some("AppState"), ct, FALSE),
      self_ty |-> st,
      items |-> <<Handler("list", m_GET, t_w, <<>>, <<>>, JsonOf("W"))>>] :
        st \in SelfTypes, ct \in {None, Some(t_C), Some(t_C \o t_Controller)}}

\* schema lists: two types named Widget with different schemas, and Gadget
Widget1 == SchemaType("a::Widget", t_Widget, "widget-1")
Widget2 == SchemaType("b::Widget", t_Widget, "widget-2")
Gadget1 == SchemaType("Gadget", t_Gadget, "gadget-1")

SchemaLists ==
    {<<>>, <<Widget1>>, <<Widget2>>, <<Gadget1>>, <<Widget1, Widget2>>,
     <<Widget2, Gadget1, Widget1>>}

SchemaInputs ==
    {[args |-> [ControllerArgs(None, None, None, Some("AppState"), Some(t_C), FALSE)
                  EXCEPT !.schemas = sl],
      self_ty |-> Some(t_WController),
      items |-> <<Handler("list", m_GET, t_w, <<>>, <<>>, JsonOf("W"))>>] :
        sl \in SchemaLists}

\* controllers whose handler is documented with the envelope: a linked show
\* with payload W or V, and a list that returns the envelope itself
EnvelopeInputs ==
    {[args |-> ControllerArgs(None, Some(p), None, Some("AppState"), Some(t_C), FALSE),
      self_ty |-> Some(t_WController),
      items |-> <<h>>] :
        p \in {t_items, t_old},
        h \in {Handler("show", m_GET, t_x, OneLink, <<Param(PatIdent("id"))>>, JsonOf(seg)) :
                  seg \in {"W", "V"}}
              \cup {Handler("list", m_GET, t_w, <<>>, <<>>,
                            Some(Ty("Json", <<Ty("HateoasResponse", <<Ty("W", <<>>)>>)>>)))}}

\* controllers with and without the one middleware a controller can name
MiddlewareInputs ==
    {[args |-> [ControllerArgs(None, Some(t_items), None, Some("AppState"), Some(t_C), FALSE)
                  EXCEPT !.middleware = m],
      self_ty |-> Some(t_WController), items |-> its] :
        m \in {None, Some("auth")},
        its \in {<<>>,
                 <<Handler("list", m_GET, t_w, <<>>, <<>>, JsonOf("W"))>>,
                 <<Handler("list", m_GET, t_w, <<>>, <<>>, JsonOf("W")),
                   Handler("remove", <<"D","E","L","E","T","E">>, t_x, <<>>, <<>>,
                           ResultJsonOf("W"))>>}}

\* method tokens: the eight names in upper, lower and mixed case, and
\* identifiers that are no method name
TokenPool ==
    {<<"G","E","T">>, <<"P","O","S","T">>, <<"P","U","T">>, <<"P","A","T","C","H">>,
     <<"D","E","L","E","T","E">>, <<"H","E","A","D">>, <<"O","P","T","I","O","N","S">>,
     <<"T","R","A","C","E">>,
     <<"G","e","t">>, <<"p","o","s","t">>, <<"p","u","T">>, <<"p","A","t","C","h">>,
     <<"d","e","l","e","t","e">>, <<"h","e","a","D">>, <<"O","p","t","i","o","n","s">>,
     <<"t","r","a","c","e">>,
     <<"G","E","T","S">>, <<"G","E">>, <<"l","i","s","t">>,
     <<"C","O","N","N","E","C","T">>, <<"g","e","t","_">>}

MethodInputs ==
    {[args |-> ControllerArgs(None, Some(t_items), None, Some("AppState"), Some(t_C), FALSE),
      self_ty |-> Some(t_WController),
      items |-> <<Handler("list", tok, t_w, <<>>, <<>>, JsonOf("W"))>>] :
        tok \in TokenPool}

CtlInputs ==
    WireInputs \cup NameInputs \cup SchemaInputs \cup EnvelopeInputs \cup MiddlewareInputs
      \cup MethodInputs

InitCtl == InitWith(CtlInputs)

\* the #[route] attribute of one of the impl block's items expanded as on a
\* free fn: the compiler hands route_impl the attribute's tokens and the item
ExpandRoute ==
    /\ pc = "declared"
    /\ route_out = None
    /\ \E i \in 1..Len(items) :
          /\ RoutePosition(items[i].attrs) # 0
          /\ route_out' = Some([fn_name |-> items[i].sig.ident,
                                out |-> route_impl(
                                    items[i].attrs[RoutePosition(items[i].attrs)].tokens,
                                    StripRoute(items[i]))])
    /\ UNCHANGED <<args, self_ty, items, expansion, openapi, registered, next_route,
                   op_has_tags, ncontrollers, components, schema_log, synthesized, pc>>

\* the generated register_schemas of the expanded controller
register_schemas ==
    /\ pc = "expanded"
    /\ LET e == Unwrap(expansion) IN
         /\ components' = RegisterSchemas(components, e.schema_types)
         /\ schema_log' = schema_log \o
                [i \in 1..Len(e.schema_types) |->
                    [name |-> e.schema_types[i].name, schema |-> e.schema_types[i].schema]]
    /\ pc' = "schemas"
    /\ UNCHANGED <<args, self_ty, items, expansion, openapi, registered, next_route,
                   op_has_tags, ncontrollers, route_out, synthesized>>

\* the next controller of the crate, with schemas or envelope handlers of
\* its own
DeclareCtl ==
    /\ pc \in {"schemas", "failed"}
    /\ ncontrollers < MaxControllers
    /\ \E c \in SchemaInputs \cup EnvelopeInputs :
          args' = c.args /\ self_ty' = c.self_ty /\ items' = c.items
    /\ expansion' = None
    /\ route_out' = None
    /\ ncontrollers' = ncontrollers + 1
    /\ pc' = "declared"
    /\ UNCHANGED <<openapi, registered, next_route, op_has_tags, components, schema_log,
                   synthesized>>

NextCtl == Expand \/ ExpandRoute \/ register_schemas \/ DeclareCtl

SpecCtl == InitCtl /\ [][NextCtl]_vars

----------------------------------------------------------------------------
(* properties of the multi-method path merge (specification Spec)          *)

MaxPermLen == 4

SameKey(a, b) == a.path = b.path /\ a.method = b.method

\* the operation in the slot of method m at path p
Slot(p, m) == IF p \in DOMAIN openapi THEN openapi[p][m] ELSE None

\* the last block of the history with the key of r
LastOfKey(r) ==
    registered[CHOOSE j \in 1..Len(registered) :
                  /\ SameKey(registered[j], r)
                  /\ \A k \in (j + 1)..Len(registered) : ~SameKey(registered[k], r)]

\* C1 as stated: for every two registered handlers that share a full path and
\* differ in method, the path item holds, in each one's method slot, the
\* operation of that very handler.
C1_BothOwnOperations ==
    \A i, j \in 1..Len(registered) :
        (registered[i].path = registered[j].path
            /\ registered[i].method # registered[j].method)
        => /\ Slot(registered[i].path, registered[i].method) = Some(registered[i].operation)
           /\ Slot(registered[j].path, registered[j].method) = Some(registered[j].operation)

\* C1 amended: every registered handler's method slot is populated and holds
\* the operation of the last registered handler of that full path and method
\* (its own unless a later handler of the same path and method was
\* registered); a slot never holds the operation of a handler of another
\* method or path, and slots no handler was registered for are empty.
C1_SlotsHoldLastOfKey ==
    /\ \A i \in 1..Len(registered) :
          Slot(registered[i].path, registered[i].method)
            = Some(LastOfKey(registered[i]).operation)
    /\ \A p \in DOMAIN openapi : \A m \in HttpMethods :
          IsSome(openapi[p][m])
          => \E i \in 1..Len(registered) :
                registered[i].path = p /\ registered[i].method = m

\* two handlers of different controllers share a path, differ in method, and
\* both operations are in the path item
C1_Witness ==
    /\ ncontrollers = 2
    /\ \E i, j \in 1..Len(registered) :
          /\ registered[i].path = registered[j].path
          /\ registered[i].method # registered[j].method
          /\ Slot(registered[i].path, registered[i].method) = Some(registered[i].operation)
          /\ Slot(registered[j].path, registered[j].method) = Some(registered[j].operation)

\* C2 as stated: a step never changes a slot that was populated before it,
\* the slot of the new handler's own method included.
C2_PopulatedSlotsUntouched ==
    [][\A p \in DOMAIN openapi : \A m \in HttpMethods :
          IsSome(openapi[p][m]) => openapi'[p][m] = openapi[p][m]]_vars

\* C2 amended: a block that registers a handler at a path that already has an
\* entry leaves every slot of every entry as it was, populated or empty,
\* except the slot of the new handler's own method, which holds the new
\* handler's operation afterwards, whether it was empty or populated before.
C2_OnlyOwnSlotChanges ==
    [][(registered' # registered /\ registered'[Len(registered')].path \in DOMAIN openapi)
        => LET r == registered'[Len(registered')] IN
           /\ DOMAIN openapi' = DOMAIN openapi
           /\ openapi'[r.path][r.method] = Some(r.operation)
           /\ \A p \in DOMAIN openapi : \A m \in HttpMethods :
                 (p # r.path \/ m # r.method) => openapi'[p][m] = openapi[p][m]]_vars

\* a handler was registered on top of an earlier one of the same path and
\* method with another operation, next to a populated slot of another method
C2_Witness ==
    /\ Len(registered) >= 3
    /\ LET r == registered[Len(registered)] IN
       /\ \E i \in 1..(Len(registered) - 1) :
             SameKey(registered[i], r) /\ registered[i].operation # r.operation
       /\ \E i \in 1..(Len(registered) - 1) :
             /\ registered[i].path = r.path /\ registered[i].method # r.method
             /\ Slot(r.path, registered[i].method) = Some(registered[i].operation)
       /\ Slot(r.path, r.method) = Some(r.operation)

\* register_paths run over a sequence of blocks, from the empty document
RECURSIVE Replay(_, _)
Replay(paths, blocks) ==
    IF blocks = <<>> THEN paths
    ELSE Replay(MergeOrInsert(paths, Head(blocks).path,
                              NewPathItem(<<Head(blocks).method>>, Head(blocks).operation)),
                Tail(blocks))

\* the orders of a sequence
Orders(seq) ==
    {[i \in 1..Len(seq) |-> seq[f[i]]] : f \in Permutations(1..Len(seq))}

\* the mapping that depends on the set of blocks only
KeyedDocument(blocks) ==
    [p \in {b.path : b \in blocks} |->
        [m \in HttpMethods |->
            IF \E b \in blocks : b.path = p /\ b.method = m
            THEN Some((CHOOSE b \in blocks : b.path = p /\ b.method = m).operation)
            ELSE None]]

\* no two blocks of one full path and method carry different operations
Consistent(seq) ==
    \A i, j \in 1..Len(seq) : SameKey(seq[i], seq[j]) => seq[i].operation = seq[j].operation

\* C3 as stated: registering the same handlers in any other order gives the
\* document that the order taken gave.
C3_EveryOrderSameDocument ==
    \A s \in Orders(registered) : Replay(NoPaths, s) = openapi

\* C3 amended: when no two of the handlers share full path and method with
\* different operations, the document is determined by the set of handlers:
\* it maps each (full path, method) to the operation of the handler of that
\* key, and every order of registration yields it.
C3_OrderIndependentWhenConsistent ==
    Consistent(registered)
    => /\ openapi = KeyedDocument({registered[i] : i \in 1..Len(registered)})
       /\ Len(registered) <= MaxPermLen
          => \A s \in Orders(registered) : Replay(NoPaths, s) = openapi

\* three consistent blocks, two of them at one path with different methods
C3_Witness ==
    /\ pc = "registered"
    /\ Len(registered) >= 3
    /\ Consistent(registered)
    /\ \E i, j \in 1..Len(registered) :
          registered[i].path = registered[j].path
          /\ registered[i].method # registered[j].method

\* C4 as stated: the tags of a handler's operation in the document, and of
\* its stub annotation, are exactly the route's tags list if given, else the
\* route's single tag, else the controller tag.
C4_TagPrecedence ==
    pc = "registered"
    => LET e == Unwrap(expansion)
           n == Len(e.routes)
       IN \A i \in 1..n :
             LET r == e.routes[i].route_info
                 expected == IF IsSome(r.tags) THEN Unwrap(r.tags)
                             ELSE IF IsSome(r.tag) THEN <<Unwrap(r.tag)>>
                             ELSE <<e.tag>>
                 body == e.utoipa_wrappers[i].utoipa_body
             IN /\ (IF IsSome(body.tags) THEN Unwrap(body.tags) ELSE <<Unwrap(body.tag)>>)
                      = expected
                /\ registered[Len(registered) - n + i].operation.tags = Some(expected)

----------------------------------------------------------------------------
(* properties of the stub of one handler (specification SpecDoc)           *)

Expanded == pc = "expanded"
DocHandler == items[1]
DocDirs == items[1].attrs[1].tokens.dirs
DocStub == Unwrap(expansion).utoipa_wrappers[1]
DocRoute == Unwrap(expansion).routes[1].route_info

HasDir(key) == \E k \in 1..Len(DocDirs) : DocDirs[k].key = key
DirOf(key) == DocDirs[CHOOSE k \in 1..Len(DocDirs) : DocDirs[k].key = key]

\* the text of the responses fragment the handler declares, "" when absent
FragmentText == IF HasDir("responses") THEN JoinSp(DirOf("responses").toks) ELSE <<>>

\* Result<Json<T>> or Json<T>
IsJsonOfT(ty) == ty.kind = "path" /\ ty.seg = "Json" /\ Len(ty.args) > 0
RecognizedShape(out) ==
    /\ IsSome(out)
    /\ \/ IsJsonOfT(out[1])
       \/ out[1].kind = "path" /\ out[1].seg = "Result" /\ Len(out[1].args) > 0
          /\ IsJsonOfT(out[1].args[1])
PayloadOf(out) == IF IsJsonOfT(out[1]) THEN out[1].args[1] ELSE out[1].args[1].args[1]

\* the body schema inferred for the handler: the synthesized envelope schema
\* when the handler is link-wrapped or returns the envelope, else T
InferredBody ==
    IF (HasDir("links") /\ DirOf("links").links # <<>>)
       \/ PayloadOf(DocHandler.sig.output).seg = "HateoasResponse"
    THEN Ty("__HateoasSchema_" \o DocHandler.sig.ident, <<>>)
    ELSE PayloadOf(DocHandler.sig.output)

\* the generated entries of the stub's response catalog
AutoEntries == SelectSeq(DocStub.utoipa_body.responses,
                         LAMBDA x : x.src = "macro" /\ x.status # 0)
HasAuto(status) == \E k \in 1..Len(AutoEntries) : AutoEntries[k].status = status

\* C5: for a handler of a recognized return shape the catalog has a generated
\* status-200 entry, whose body is the inferred schema, iff the text of the
\* responses fragment contains neither "200" nor "OK".
C5_AutoSuccessIffNotMentioned ==
    (Expanded /\ RecognizedShape(DocHandler.sig.output))
    => /\ HasAuto(200) <=> (~Contains(FragmentText, t_200) /\ ~Contains(FragmentText, t_OK))
       /\ \A k \in 1..Len(AutoEntries) :
             AutoEntries[k].status = 200 => AutoEntries[k].body = Some(InferredBody)

\* a fragment that has "OK" only inside a longer token suppresses the entry
C5_Witness ==
    /\ Expanded /\ RecognizedShape(DocHandler.sig.output)
    /\ Contains(FragmentText, t_OK) /\ ~Contains(FragmentText, t_200)
    /\ ~Contains(FragmentText, <<" ","O","K">>) /\ FragmentText # t_OK
    /\ ~HasAuto(200)
    /\ HasAuto(401)

\* C6: the generated 401 entry is present iff the text contains neither "401"
\* nor "Unauthorized", the generated 500 entry iff it contains neither "500"
\* nor "Internal server error", for every return type, security flag and
\* outcome of the other decisions.
C6_Auto401And500 ==
    Expanded
    => /\ HasAuto(401)
            <=> (~Contains(FragmentText, t_401) /\ ~Contains(FragmentText, t_Unauthorized))
       /\ HasAuto(500)
            <=> (~Contains(FragmentText, t_500) /\ ~Contains(FragmentText, t_ISE))
       /\ \A k \in 1..Len(AutoEntries) :
             /\ AutoEntries[k].status = 401 => AutoEntries[k].description = t_Unauthorized
             /\ AutoEntries[k].status = 500 => AutoEntries[k].description = t_ISE

\* a secured handler without a recognized return type whose fragment names
\* Unauthorized: no 200, no 401, but the 500 entry
C6_Witness ==
    /\ Expanded
    /\ ~RecognizedShape(DocHandler.sig.output)
    /\ HasDir("security")
    /\ Contains(FragmentText, t_Unauthorized) /\ ~Contains(FragmentText, t_401)
    /\ ~HasAuto(401) /\ HasAuto(500) /\ ~HasAuto(200)

\* C7: a declared responses fragment is in the catalog token for token, ahead
\* of every generated entry, and the generated entries are in the order 200,
\* 401, 500.
C7_FragmentVerbatimFirst ==
    (Expanded /\ HasDir("responses"))
    => LET toks == DirOf("responses").toks
           R == DocStub.utoipa_body.responses
       IN /\ Len(R) >= Len(toks)
          /\ \A k \in 1..Len(toks) : R[k].src = "user" /\ R[k].tok = toks[k]
          /\ \A k \in (Len(toks) + 1)..Len(R) : R[k].src = "macro"
          /\ \A k \in 1..Len(AutoEntries) : AutoEntries[k].status \in {200, 401, 500}
          /\ \A k \in 1..(Len(AutoEntries) - 1) :
                AutoEntries[k].status < AutoEntries[k + 1].status

\* a two-token fragment followed by the 200 and the 500 entry
C7_Witness ==
    /\ Expanded /\ HasDir("responses")
    /\ Len(DirOf("responses").toks) = 2
    /\ DocStub.utoipa_body.responses[1].tok = t_404
    /\ DocStub.utoipa_body.responses[2].tok = t_Unauthorized
    /\ Len(AutoEntries) = 2
    /\ AutoEntries[1].status = 200 /\ AutoEntries[2].status = 500

\* C8: the stub annotation has the bearer security requirement iff the route
\* has the security flag or the controller has it.
C8_SecurityIffRouteOrController ==
    Expanded => (DocStub.utoipa_body.security <=> (HasDir("security") \/ args.security))

\* the controller flag alone secures a handler without the flag
C8_Witness ==
    /\ Expanded /\ args.security /\ ~HasDir("security")
    /\ DocStub.utoipa_body.security

\* the full prefix as the claim composes it
ExpectedPrefix ==
    (IF IsSome(args.version) THEN <<"/">> \o args.version[1] ELSE <<>>)
      \o (IF IsSome(args.path) THEN args.path[1]
          ELSE IF IsSome(args.prefix) THEN args.prefix[1] ELSE <<>>)

\* C9: prefix() and the prefix of the documented path are "/" + version (if
\* given) followed by path, else the legacy prefix, else nothing; the legacy
\* prefix is ignored when path is given.
C9_PrefixComposition ==
    Expanded
    => /\ Unwrap(expansion).prefix = ExpectedPrefix
       /\ DocStub.utoipa_body.path = ExpectedPrefix \o Unwrap(DocHandler.attrs[1].tokens.path)
       /\ (args.version = Some(t_v2) /\ args.path = Some(t_items))
          => Unwrap(expansion).prefix = <<"/","v","2","/","i","t","e","m","s">>
       /\ (args.version = None /\ args.path = None /\ args.prefix = Some(t_old))
          => Unwrap(expansion).prefix = <<"/","o","l","d">>

\* version, path and legacy prefix all given: the legacy prefix is ignored
C9_Witness ==
    /\ Expanded
    /\ IsSome(args.version) /\ IsSome(args.path) /\ IsSome(args.prefix)
    /\ Unwrap(expansion).prefix = <<"/","v","2","/","i","t","e","m","s">>
    /\ DocStub.utoipa_body.path = <<"/","v","2","/","i","t","e","m","s","/","w">>

\* the description of the stub annotation, "" when the annotation has none
DescText == UnwrapOrEmpty(DocStub.utoipa_body.description)
DeclaredDescription == IF HasDir("description") THEN DirOf("description").str ELSE <<>>
LinkMethod(link) == IF IsSome(link.method) THEN link.method[1] ELSE <<"G","E","T">>
BulletLine(l) == Len(l) >= 2 /\ l[1] = "-" /\ l[2] = " "
t_Header == <<"*","*","A","v","a","i","l","a","b","l","e"," ","L","i","n","k","s",":","*","*">>

\* C10 as stated: the description of a handler with N >= 1 links has exactly
\* N bullet lines, the i-th being "- <rel>: <METHOD> <href>" of the i-th link.
C10_PlainBulletLines ==
    (Expanded /\ Len(DocRoute.links) >= 1)
    => LET bullets == SelectSeq(Lines(DescText), BulletLine) IN
       /\ Len(bullets) = Len(DocRoute.links)
       /\ \A i \in 1..Len(DocRoute.links) :
             bullets[i] = <<"-", " ">> \o DocRoute.links[i].rel \o <<":", " ">>
                            \o LinkMethod(DocRoute.links[i]) \o <<" ">>
                            \o DocRoute.links[i].href

\* C10 amended: the description of a handler with N >= 1 links is the
\* declared description (then an empty line, when it is not empty), the line
\* **Available Links:** and after it exactly N lines, the i-th being
\* "- " + backtick + rel + backtick + ": " + backtick + METHOD + " " + href +
\* backtick of the i-th link, and nothing after them.
C10_AvailableLinksSection ==
    (Expanded /\ Len(DocRoute.links) >= 1)
    => LET L == Lines(DescText)
           n == Len(L)
           N == Len(DocRoute.links)
       IN /\ n >= N + 2
          /\ L[n] = <<>>
          /\ L[n - N - 1] = t_Header
          /\ \A i \in 1..N :
                L[n - N - 1 + i] =
                    <<"-", " ", BT>> \o DocRoute.links[i].rel \o <<BT, ":", " ", BT>>
                      \o LinkMethod(DocRoute.links[i]) \o <<" ">>
                      \o DocRoute.links[i].href \o <<BT>>
          /\ IF DeclaredDescription = <<>> THEN n = N + 2
             ELSE SubSeq(L, 1, n - N - 2) = Lines(DeclaredDescription) \o <<<<>>>>

\* two links of one relation, the first without a method, after a declared
\* description
C10_Witness ==
    /\ Expanded
    /\ Len(DocRoute.links) = 2
    /\ DocRoute.links[1].rel = DocRoute.links[2].rel
    /\ IsNone(DocRoute.links[1].method) /\ IsSome(DocRoute.links[2].method)
    /\ DeclaredDescription = t_d
    /\ Len(Lines(DescText)) = 6

----------------------------------------------------------------------------
(* properties of the link transform of one handler (specification SpecDoc) *)

\* the link tuples the handler's route directive declares
DeclaredLinks == IF HasDir("links") THEN DirOf("links").links ELSE <<>>
HasKey(tuple, key) == \E k \in 1..Len(tuple) : tuple[k].key = key
KVal(tuple, key) == tuple[CHOOSE k \in 1..Len(tuple) : tuple[k].key = key].val
DeclaredMethod(tuple) == IF HasKey(tuple, "method") THEN KVal(tuple, "method") ELSE <<"G","E","T">>

ImplItems == Unwrap(expansion).impl_items
ImplName == "__impl_" \o DocHandler.sig.ident
HasRouteAttr(item) == \E k \in 1..Len(item.attrs) : item.attrs[k].name = "route"

\* C11: a handler whose link list is empty passes through: the impl block
\* has it exactly once with its name, signature and body, there is no
\* __impl_ variant of it, and the description of its stub is the declared
\* description, without an Available Links section.
C11_EmptyLinksPassThrough ==
    (Expanded /\ DeclaredLinks = <<>>)
    => /\ Len(ImplItems) = 1
       /\ ImplItems[1].sig = DocHandler.sig
       /\ ImplItems[1].block = DocHandler.block
       /\ \A k \in 1..Len(ImplItems) : ImplItems[k].sig.ident # ImplName
       /\ DescText = DeclaredDescription
       /\ ~Contains(DescText, t_Header)

\* a handler that writes links() with nothing in it, next to a description
C11_Witness ==
    /\ Expanded
    /\ HasDir("links") /\ DeclaredLinks = <<>>
    /\ DeclaredDescription = t_bullet_d
    /\ Len(ImplItems) = 1
    /\ ImplItems[1].sig.ident = "show"
    /\ ImplItems[1].block.kind = "original"

\* C12 as stated: a handler with links whose return type is neither
\* Result<Json<T>> nor Json<T> is emitted as exactly the original handler,
\* with no implementation variant next to it.
C12_UnrecognizedShapeUnmodified ==
    (Expanded /\ DeclaredLinks # <<>> /\ ~RecognizedShape(DocHandler.sig.output))
    => /\ Len(ImplItems) = 1
       /\ ImplItems[1].sig = DocHandler.sig
       /\ ImplItems[1].block = DocHandler.block
       /\ \A k \in 1..Len(ImplItems) : ImplItems[k].sig.ident # ImplName

\* C13: a handler with links and a recognized return shape is emitted as
\* exactly two definitions: __impl_<name> with the original signature and
\* body and no route attribute, and the public variant under the original
\* name, which alone is in the routes, the wiring table, PATH_NAMES,
\* openapi_routes and the stubs, with the declared method and path.
C13_TwoVariants ==
    (Expanded /\ DeclaredLinks # <<>> /\ RecognizedShape(DocHandler.sig.output))
    => LET e == Unwrap(expansion)
           name == DocHandler.sig.ident
       IN /\ Len(ImplItems) = 2
          /\ ImplItems[1].sig = [DocHandler.sig EXCEPT !.ident = ImplName]
          /\ ImplItems[1].block = DocHandler.block
          /\ ~HasRouteAttr(ImplItems[1])
          /\ ImplItems[2].sig.ident = name
          /\ ImplItems[2].sig.inputs = DocHandler.sig.inputs
          /\ ImplItems[2].block.kind = "wrapper"
          /\ ImplItems[2].block.call = ImplName
          /\ Len(e.routes) = 1
          /\ e.routes[1].fn_name = name
          /\ e.routes[1].route_info.path = Unwrap(DocHandler.attrs[1].tokens.path)
          /\ e.routes[1].route_info.method
               = from_ident(DocHandler.attrs[1].tokens.method)[1]
          /\ [i \in 1..Len(e.route_registrations) |-> e.route_registrations[i].handler]
               = <<name>>
          /\ e.PATH_NAMES = <<name>>
          /\ e.path_structs = <<"__path_" \o name>>
          /\ [i \in 1..Len(e.utoipa_wrappers) |-> e.utoipa_wrappers[i].fn_name] = <<name>>
          /\ Len(e.openapi_routes) = 1

\* a handler returning Result<Json<W>> with a link, split in two
C13_Witness ==
    /\ Expanded
    /\ DeclaredLinks # <<>>
    /\ DocHandler.sig.output = ResultJsonOf("W")
    /\ Len(ImplItems) = 2
    /\ ImplItems[1].sig.ident = "__impl_list"
    /\ ImplItems[2].sig.ident = "list"
    /\ Unwrap(expansion).PATH_NAMES = <<"list">>

\* the add_link statements of the public variant and the links of the
\* envelope its body builds
WrapperStmts == ImplItems[2].block.link_stmts
EnvelopeLinks == wrapper_body(ImplItems[2].block, "data").links
StmtOf(tuple) ==
    [rel |-> KVal(tuple, "rel"), href |-> KVal(tuple, "href"), method |-> DeclaredMethod(tuple)]
LinkOf(tuple) == [href |-> KVal(tuple, "href"), method |-> DeclaredMethod(tuple)]
DeclaredRels == {KVal(DeclaredLinks[i], "rel") : i \in 1..Len(DeclaredLinks)}

\* C14 as stated: the public variant of a handler with N links performs N
\* add-link steps in list order, and the links mapping of the envelope has N
\* entries, one for each declared link, duplicates of a relation included.
C14_OneEntryPerLinkSpec ==
    (Expanded /\ DeclaredLinks # <<>> /\ RecognizedShape(DocHandler.sig.output))
    => /\ WrapperStmts = [i \in 1..Len(DeclaredLinks) |-> StmtOf(DeclaredLinks[i])]
       /\ Cardinality(DOMAIN EnvelopeLinks) = Len(DeclaredLinks)
       /\ \A i \in 1..Len(DeclaredLinks) :
             /\ KVal(DeclaredLinks[i], "rel") \in DOMAIN EnvelopeLinks
             /\ EnvelopeLinks[KVal(DeclaredLinks[i], "rel")] = LinkOf(DeclaredLinks[i])

\* C14 amended: the public variant performs N add-link steps, the i-th with
\* the relation, href and method (GET when absent) of the i-th declared
\* link; the links mapping has one entry per distinct relation name, and the
\* entry of a relation declared once is that link.
C14_StepsInOrderEntryPerRelation ==
    (Expanded /\ DeclaredLinks # <<>> /\ RecognizedShape(DocHandler.sig.output))
    => /\ WrapperStmts = [i \in 1..Len(DeclaredLinks) |-> StmtOf(DeclaredLinks[i])]
       /\ DOMAIN EnvelopeLinks = DeclaredRels
       /\ \A i \in 1..Len(DeclaredLinks) :
             (\A j \in 1..Len(DeclaredLinks) :
                 KVal(DeclaredLinks[j], "rel") = KVal(DeclaredLinks[i], "rel") => j = i)
             => EnvelopeLinks[KVal(DeclaredLinks[i], "rel")] = LinkOf(DeclaredLinks[i])

\* two links of one relation with different targets: two steps, one entry
C14_Witness ==
    /\ Expanded /\ RecognizedShape(DocHandler.sig.output)
    /\ Len(DeclaredLinks) = 2
    /\ KVal(DeclaredLinks[1], "rel") = KVal(DeclaredLinks[2], "rel")
    /\ KVal(DeclaredLinks[1], "href") # KVal(DeclaredLinks[2], "href")
    /\ Len(WrapperStmts) = 2
    /\ WrapperStmts[1].method = <<"G","E","T">>
    /\ Cardinality(DOMAIN EnvelopeLinks) = 1

----------------------------------------------------------------------------
(* properties of a controller of several items (specification SpecCtl)     *)

CtlExpanded == pc \in {"expanded", "schemas"}

\* the handlers that carry a route directive, in declaration order
IsRouted(item) == item.kind = "fn" /\ HasRouteAttr(item)
RoutedItems == SelectSeq(items, IsRouted)
DirectiveOf(item) == item.attrs[RoutePosition(item.attrs)].tokens

\* the eight method tokens, in upper case
MethodTokens ==
    {<<"G","E","T">>, <<"P","O","S","T">>, <<"P","U","T">>, <<"P","A","T","C","H">>,
     <<"D","E","L","E","T","E">>, <<"H","E","A","D">>, <<"O","P","T","I","O","N","S">>,
     <<"T","R","A","C","E">>}

\* a directive whose method token is not recognized or whose path is missing
InvalidDirective(tokens) ==
    to_uppercase(tokens.method) \notin MethodTokens \/ tokens.path = None

\* C15 as stated: the wiring table has exactly one entry for each handler
\* that carries a route directive, in declaration order, with the handler's
\* own path template and declared method.
C15_OneEntryPerRoutedHandler ==
    CtlExpanded
    => LET regs == Unwrap(expansion).route_registrations IN
       /\ Len(regs) = Len(RoutedItems)
       /\ \A i \in 1..Len(RoutedItems) :
             /\ i <= Len(regs)
             /\ regs[i].handler = RoutedItems[i].sig.ident
             /\ Some(regs[i].path) = DirectiveOf(RoutedItems[i]).path

\* C16 as stated: a route directive with an unrecognized method token or
\* without a path literal yields a compile error, in the expansion of the
\* controller that holds the handler and in the expansion of the route
\* attribute on its own.
C16_InvalidDirectiveDiagnosed ==
    /\ CtlExpanded
       => \A i \in 1..Len(RoutedItems) :
             InvalidDirective(DirectiveOf(RoutedItems[i])) => Unwrap(expansion).error
    /\ IsSome(route_out)
       => \A i \in 1..Len(RoutedItems) :
             (RoutedItems[i].sig.ident = Unwrap(route_out).fn_name
                /\ InvalidDirective(DirectiveOf(RoutedItems[i])))
             => IsSome(Unwrap(route_out).out.compile_error)

\* the schema of the last entry of the log under the name
LastRegistered(log, name) ==
    log[CHOOSE j \in 1..Len(log) :
           /\ log[j].name = name
           /\ \A k \in (j + 1)..Len(log) : log[k].name # name].schema

\* C18: a run of register_schemas leaves every name of the controller's
\* schema list mapped to the schema of the last type of the list with that
\* name and every other name as it was; after any sequence of runs each
\* name maps to the schema of its last registration.
C18_LastRegistrationWins ==
    [][(pc = "expanded" /\ pc' = "schemas")
        => LET list == Unwrap(expansion).schema_types
               names == {list[i].name : i \in 1..Len(list)}
           IN /\ DOMAIN components' = DOMAIN components \cup names
              /\ \A n \in names : components'[n] = LastRegistered(list, n)
              /\ \A n \in DOMAIN components \ names : components'[n] = components[n]
              /\ DOMAIN components' = {schema_log'[i].name : i \in 1..Len(schema_log')}
              /\ \A n \in DOMAIN components' :
                    components'[n] = LastRegistered(schema_log', n)]_vars

\* a controller registered Widget twice and Gadget, a second controller
\* registered Widget with another schema: the last Widget stands, Gadget is kept
C18_Witness ==
    /\ pc = "schemas" /\ ncontrollers = 2
    /\ Len(schema_log) = 4
    /\ schema_log[2].name = t_Gadget
    /\ schema_log[3].name = t_Widget /\ schema_log[4].name = t_Widget
    /\ schema_log[3].schema = "widget-1" /\ schema_log[4].schema = "widget-2"
    /\ components[t_Widget] = "widget-2"
    /\ components[t_Gadget] = "gadget-1"

\* C19: PATH_COUNT is the length of PATH_NAMES and the number of stubs, the
\* i-th name is the fn name of the i-th stub, and the handlers of the wiring
\* table, of openapi_routes and of register_paths are the same list in the
\* same order.
C19_PathNamesMatchStubs ==
    CtlExpanded
    => LET e == Unwrap(expansion)
           n == e.PATH_COUNT
       IN /\ n = Len(e.PATH_NAMES)
          /\ n = Len(e.utoipa_wrappers)
          /\ n = Len(e.route_registrations)
          /\ n = Len(e.openapi_routes)
          /\ n = Len(e.path_structs)
          /\ \A i \in 1..n :
                /\ e.utoipa_wrappers[i].fn_name = e.PATH_NAMES[i]
                /\ e.route_registrations[i].handler = e.PATH_NAMES[i]
                /\ e.path_structs[i] = "__path_" \o e.PATH_NAMES[i]
                /\ e.utoipa_wrappers[i].utoipa_body.path
                     = e.prefix \o e.route_registrations[i].path
                /\ e.utoipa_wrappers[i].utoipa_body.method = e.route_registrations[i].method
                /\ e.openapi_routes[i].path = e.utoipa_wrappers[i].utoipa_body.path
                /\ e.openapi_routes[i].method
                     = to_uppercase(e.route_registrations[i].method)

\* a controller of two handlers of different paths and methods
C19_Witness ==
    /\ CtlExpanded
    /\ Unwrap(expansion).PATH_COUNT = 2
    /\ Unwrap(expansion).PATH_NAMES = <<"show", "create">>
    /\ Unwrap(expansion).route_registrations[1].path = t_x
    /\ Unwrap(expansion).route_registrations[2].method = <<"p","o","s","t">>
    /\ Len(Unwrap(expansion).impl_items) = 3

\* the text without its last Len(suffix) characters when it ends with suffix
StripSuffix(text, suffix) ==
    IF Len(text) >= Len(suffix)
       /\ SubSeq(text, Len(text) - Len(suffix) + 1, Len(text)) = suffix
    THEN SubSeq(text, 1, Len(text) - Len(suffix))
    ELSE text

\* C20 as stated: the controller tag is the explicit tag unchanged when one
\* is given; else the self type's name with a trailing "Controller" removed
\* and nothing else changed; else "API".
C20_TrailingSuffixOnly ==
    CtlExpanded
    => Unwrap(expansion).tag =
          (IF IsSome(args.tag) THEN Unwrap(args.tag)
           ELSE IF IsSome(self_ty) THEN StripSuffix(Unwrap(self_ty), t_Controller)
           ELSE t_API)

\* C21 as stated: two different handlers, of one controller or of two, never
\* receive the same synthesized schema name.
C21_SynthesizedNamesUnique ==
    \A i, j \in 1..Len(synthesized) :
        (synthesized[i].controller # synthesized[j].controller
            \/ synthesized[i].fn_name # synthesized[j].fn_name)
        => synthesized[i].name # synthesized[j].name

----------------------------------------------------------------------------
(* further properties of the stub of one handler (specification SpecDoc)   *)

KnownKeys ==
    {"summary", "description", "deprecated", "security", "collection", "hateoas",
     "tag", "tags", "links", "responses"}

\* the directives of the handler the macro does not know, in declaration order
UnknownDirs == SelectSeq(DocDirs, LAMBDA d : d.key \notin KnownKeys)

\* the tokens that follow the name of a directive as it is written
WrittenAfterName(d) ==
    CASE d.form = "eq" -> <<<<"=">>>> \o d.toks
      [] d.form = "paren" -> <<<<"(">>>> \o d.toks \o <<<<")">>>>
      [] OTHER -> <<>>

\* C22 as stated: unknown directives do not fail the parse; the annotation
\* of the stub has every one of them, in declaration order, each as its name
\* followed by what was written after it: = and the value expression, the
\* parenthesized group, or nothing.
C22_UnknownDirectivesPassThrough ==
    (Expanded /\ UnknownDirs # <<>>)
    => /\ Len(Unwrap(expansion).routes) = 1
       /\ DocStub.utoipa_body.others =
             [i \in 1..Len(UnknownDirs) |->
                 [id |-> UnknownDirs[i].key, toks |-> WrittenAfterName(UnknownDirs[i])]]

\* the parameters of the handler that are not the receiver
TypedParams == SelectSeq(DocHandler.sig.inputs, LAMBDA a : ~a.receiver)

\* the one name a parameter pattern binds: x for x, Path(x) and &x
RECURSIVE SingleBinding(_)
SingleBinding(pat) ==
    CASE pat.kind = "Ident" -> Some(pat.ident)
      [] pat.kind \in {"TupleStruct", "Reference", "Type"} /\ Len(pat.elems) = 1
            -> SingleBinding(pat.elems[1])
      [] OTHER -> None

\* C23 as stated: the forwarding call of the public variant passes exactly
\* one argument per non-receiver parameter of the handler, in parameter
\* order, for every pattern shape; the argument of a parameter that binds
\* one name is that name.
C23_OneArgumentPerParameter ==
    (Expanded /\ DeclaredLinks # <<>> /\ RecognizedShape(DocHandler.sig.output))
    => LET call == ImplItems[2].block.args IN
       /\ Len(call) = Len(TypedParams)
       /\ \A i \in 1..Len(TypedParams) :
             (i <= Len(call) /\ IsSome(SingleBinding(TypedParams[i].pat)))
             => call[i] = Unwrap(SingleBinding(TypedParams[i].pat))

EnvelopeName == "__HateoasSchema_" \o DocHandler.sig.ident
AutoBodies(status) ==
    {AutoEntries[k].body : k \in {j \in 1..Len(AutoEntries) : AutoEntries[j].status = status}}

\* C24: a handler with links and a recognized return shape is documented
\* with the envelope: its stub emits the struct __HateoasSchema_<name> with
\* data: T, returns Json of it, and a generated 200 entry has that struct as
\* body; a handler of a recognized shape without links whose payload is not
\* HateoasResponse<..> emits no struct and a generated 200 entry has the
\* bare payload as body.
C24_LinkedHandlerDocumentedWithEnvelope ==
    (Expanded /\ RecognizedShape(DocHandler.sig.output))
    => IF DeclaredLinks # <<>>
       THEN /\ DocStub.extra_structs
                 = <<[name |-> EnvelopeName, data |-> PayloadOf(DocHandler.sig.output)]>>
            /\ DocStub.output = Some(Ty("Json", <<Ty(EnvelopeName, <<>>)>>))
            /\ Unwrap(expansion).routes[1].sig.output
                 = Some(Ty("Result", <<Ty("Json", <<Ty("HateoasResponse",
                        <<PayloadOf(DocHandler.sig.output)>>)>>)>>))
            /\ AutoBodies(200) \subseteq {Some(Ty(EnvelopeName, <<>>))}
       ELSE PayloadOf(DocHandler.sig.output).seg # "HateoasResponse"
            => /\ DocStub.extra_structs = <<>>
               /\ DocStub.output = DocHandler.sig.output
               /\ AutoBodies(200) \subseteq {Some(PayloadOf(DocHandler.sig.output))}

\* a linked handler returning Json<W> with no responses fragment: the
\* generated 200 entry has the synthesized struct as body
C24_Witness ==
    /\ Expanded
    /\ DeclaredLinks # <<>>
    /\ DocHandler.sig.output = JsonOf("W")
    /\ ~HasDir("responses")
    /\ DocStub.extra_structs = <<[name |-> "__HateoasSchema_list", data |-> Ty("W", <<>>)]>>
    /\ AutoBodies(200) = {Some(Ty("__HateoasSchema_list", <<>>))}

\* C25: a handler whose return type is of neither recognized shape, a
\* missing return type included, has no generated 200 entry whatever its
\* responses fragment is; the generated 401 and 500 entries follow their own
\* rules; the handler has its wiring entry and its stub, and no struct is
\* synthesized for it.
C25_NoAutoSuccessForOtherShapes ==
    (Expanded /\ ~RecognizedShape(DocHandler.sig.output))
    => LET e == Unwrap(expansion) IN
       /\ ~HasAuto(200)
       /\ HasAuto(401) <=> ~(Contains(FragmentText, t_401)
                               \/ Contains(FragmentText, t_Unauthorized))
       /\ HasAuto(500) <=> ~(Contains(FragmentText, t_500) \/ Contains(FragmentText, t_ISE))
       /\ Len(e.route_registrations) = 1
       /\ e.route_registrations[1].handler = DocHandler.sig.ident
       /\ e.route_registrations[1].path = Unwrap(DocHandler.attrs[1].tokens.path)
       /\ Len(e.utoipa_wrappers) = 1
       /\ DocStub.fn_name = DocHandler.sig.ident
       /\ DocStub.extra_structs = <<>>
       /\ DocStub.output = DocHandler.sig.output

\* a handler with no return type and a fragment that names neither 200 nor
\* OK: still no generated 200, while 500 is generated and 401 is suppressed
C25_Witness ==
    /\ Expanded
    /\ DocHandler.sig.output = None
    /\ HasDir("responses")
    /\ FragmentText = t_404 \o <<" ">> \o t_Unauthorized
    /\ ~HasAuto(200) /\ ~HasAuto(401) /\ HasAuto(500)
    /\ Len(Unwrap(expansion).route_registrations) = 1

----------------------------------------------------------------------------
(* further properties of a controller (specification SpecCtl)              *)

BuilderCalls == into_router_calls(Unwrap(expansion))
Router == into_router(Unwrap(expansion))

\* C26: in the chain of into_router every layer call comes after every
\* route call and before with_state, which is last; in the router the
\* routes are the wiring entries in order, each wrapped by the controller's
\* middleware, outermost first in declaration order, and the state is bound.
C26_MiddlewareWrapsEveryRoute ==
    CtlExpanded
    => LET e == Unwrap(expansion)
           n == Len(BuilderCalls)
       IN /\ \A i, j \in 1..n :
                (BuilderCalls[i].op = "route" /\ BuilderCalls[j].op = "layer") => i < j
          /\ BuilderCalls[n].op = "with_state"
          /\ \A i \in 1..(n - 1) : BuilderCalls[i].op # "with_state"
          /\ Router.with_state
          /\ Len(Router.routes) = Len(e.route_registrations)
          /\ \A i \in 1..Len(Router.routes) :
                /\ Router.routes[i].handler = e.route_registrations[i].handler
                /\ Router.routes[i].path = e.route_registrations[i].path
                /\ Router.routes[i].layers = args.middleware

\* a controller of two routes with a middleware: both routes are wrapped
C26_Witness ==
    /\ CtlExpanded
    /\ args.middleware = Some("auth")
    /\ Len(Router.routes) = 2
    /\ Router.routes[1].layers = <<"auth">> /\ Router.routes[2].layers = <<"auth">>
    /\ Router.routes[2].handler = "remove"
    /\ Router.with_state

----------------------------------------------------------------------------
(* the method of a link (specification SpecDoc)                            *)

\* the lines of the Available Links section after its header
LinkLines ==
    LET L == Lines(DescText)
        n == Len(L)
        N == Len(DeclaredLinks)
    IN SubSeq(L, n - N, n - 1)

\* the method written in the bullet line of a link: the text between
\* "- `rel`: `" and " href`"
BulletMethod(line, tuple) ==
    SubSeq(line, Len(KVal(tuple, "rel")) + 8, Len(line) - Len(KVal(tuple, "href")) - 2)

\* C27: the add-link step of the public variant and the bullet line of the
\* description both carry GET for a link declared without a method and the
\* declared method text, unchanged, for a link declared with one.
C27_LinkMethodDefaultsToGet ==
    (Expanded /\ DeclaredLinks # <<>>)
    => /\ Len(LinkLines) = Len(DeclaredLinks)
       /\ \A i \in 1..Len(DeclaredLinks) :
             LET used == IF HasKey(DeclaredLinks[i], "method")
                         THEN KVal(DeclaredLinks[i], "method") ELSE <<"G","E","T">>
             IN /\ BulletLine(LinkLines[i])
                /\ BulletMethod(LinkLines[i], DeclaredLinks[i]) = used
                /\ RecognizedShape(DocHandler.sig.output)
                   => /\ Len(WrapperStmts) = Len(DeclaredLinks)
                      /\ WrapperStmts[i].method = used

\* a link without a method before a link with the lower-case method "post",
\* on a handler whose public variant builds the envelope
C27_Witness ==
    /\ Expanded /\ RecognizedShape(DocHandler.sig.output)
    /\ Len(DeclaredLinks) = 2
    /\ ~HasKey(DeclaredLinks[1], "method")
    /\ HasKey(DeclaredLinks[2], "method") /\ KVal(DeclaredLinks[2], "method") = m_post
    /\ WrapperStmts[1].method = <<"G","E","T">> /\ WrapperStmts[2].method = m_post
    /\ BulletMethod(LinkLines[1], DeclaredLinks[1]) = <<"G","E","T">>
    /\ BulletMethod(LinkLines[2], DeclaredLinks[2]) = m_post

----------------------------------------------------------------------------
(* openapi_routes of a controller (specification SpecCtl)                  *)

\* the handlers whose route directive parses, in declaration order
ParsedItems ==
    SelectSeq(RoutedItems, LAMBDA item : ~InvalidDirective(DirectiveOf(item)))
HasDirective(item, key) ==
    \E k \in 1..Len(DirectiveOf(item).dirs) : DirectiveOf(item).dirs[k].key = key
Declared(item, key) ==
    IF HasDirective(item, key)
    THEN DirectiveOf(item).dirs[CHOOSE k \in 1..Len(DirectiveOf(item).dirs) :
                                   DirectiveOf(item).dirs[k].key = key].str
    ELSE <<>>
StubOf(name) ==
    Unwrap(expansion).utoipa_wrappers[
        CHOOSE k \in 1..Len(Unwrap(expansion).utoipa_wrappers) :
            Unwrap(expansion).utoipa_wrappers[k].fn_name = name]

\* C28: openapi_routes has one entry per handler with a parsed route
\* directive, in declaration order; its path is the full prefix followed by
\* the handler's path, its method the method name in upper case, its tag the
\* tag of the controller whatever tag or tags the handler declares, and its
\* description the declared description without the links section.
C28_OpenApiRoutesEntries ==
    CtlExpanded
    => LET e == Unwrap(expansion)
           o == e.openapi_routes
       IN /\ Len(o) = Len(ParsedItems)
          /\ \A i \in 1..Len(ParsedItems) :
                LET item == ParsedItems[i] IN
                /\ i <= Len(o)
                /\ o[i].path = e.prefix \o Unwrap(DirectiveOf(item).path)
                /\ o[i].method = to_uppercase(DirectiveOf(item).method)
                /\ o[i].method \in MethodTokens
                /\ o[i].tag = e.tag
                /\ IsSome(args.tag) => o[i].tag = Unwrap(args.tag)
                /\ o[i].description = Declared(item, "description")
                /\ o[i].summary = Declared(item, "summary")

\* a handler with tag and tags after a handler with a description and a
\* link: the entries carry the controller tag, and the description of the
\* second differs from the description of its stub
C28_Witness ==
    /\ CtlExpanded
    /\ Len(ParsedItems) = 2
    /\ ParsedItems[1].sig.ident = "create" /\ ParsedItems[2].sig.ident = "show"
    /\ HasDirective(ParsedItems[1], "tag") /\ HasDirective(ParsedItems[1], "tags")
    /\ Declared(ParsedItems[1], "tag") = t_A
    /\ Unwrap(expansion).openapi_routes[1].tag = t_C
    /\ Unwrap(expansion).openapi_routes[1].method = m_POST
    /\ Unwrap(expansion).openapi_routes[1].path = t_items \o t_w
    /\ Unwrap(expansion).openapi_routes[2].description = t_d
    /\ UnwrapOrEmpty(StubOf("show").utoipa_body.description) # t_d

----------------------------------------------------------------------------
(* handlers whose route directive does not parse (specification SpecCtl)   *)

Failing(item) == IsRouted(item) /\ InvalidDirective(DirectiveOf(item))
\* the impl block without the handlers whose directive does not parse, and
\* its expansion
Siblings == SelectSeq(items, LAMBDA item : ~Failing(item))
WithoutFailing == controller_impl(args, self_ty, Siblings)

\* C29: a handler whose route directive does not parse stays in the emitted
\* impl block without the directive and has no wiring entry, name, stub,
\* struct or openapi_routes entry; the wiring table, PATH_NAMES, PATH_COUNT,
\* the stubs and openapi_routes are those of the same impl block without
\* that handler, and so are the other items of the emitted impl block.
C29_FailingHandlerExcluded ==
    CtlExpanded
    => LET e == Unwrap(expansion)
           w == WithoutFailing
       IN /\ \A i \in 1..Len(items) :
                Failing(items[i])
                => /\ \E k \in 1..Len(e.impl_items) :
                         /\ e.impl_items[k].sig = items[i].sig
                         /\ e.impl_items[k].block = items[i].block
                         /\ e.impl_items[k].attrs = <<>>
                   /\ \A k \in 1..Len(e.PATH_NAMES) : e.PATH_NAMES[k] # items[i].sig.ident
                   /\ \A k \in 1..Len(e.route_registrations) :
                         e.route_registrations[k].handler # items[i].sig.ident
                   /\ \A k \in 1..Len(e.utoipa_wrappers) :
                         e.utoipa_wrappers[k].fn_name # items[i].sig.ident
          /\ e.route_registrations = w.route_registrations
          /\ e.PATH_NAMES = w.PATH_NAMES
          /\ e.PATH_COUNT = w.PATH_COUNT
          /\ e.utoipa_wrappers = w.utoipa_wrappers
          /\ e.path_structs = w.path_structs
          /\ e.openapi_routes = w.openapi_routes
          /\ SelectSeq(e.impl_items,
                       LAMBDA it : \A i \in 1..Len(items) :
                                      Failing(items[i]) => it.sig.ident # items[i].sig.ident)
               = w.impl_items

\* a handler with an unrecognized method between two handlers that parse
C29_Witness ==
    /\ CtlExpanded
    /\ Len(items) = 3
    /\ ~Failing(items[1]) /\ Failing(items[2]) /\ ~Failing(items[3])
    /\ items[1].sig.ident = "show" /\ items[3].sig.ident = "list"
    /\ Unwrap(expansion).PATH_NAMES = <<"show", "list">>
    /\ Len(Unwrap(expansion).impl_items) = 4
    /\ Unwrap(expansion).impl_items[3].sig.ident = items[2].sig.ident
    /\ Unwrap(expansion).impl_items[3].attrs = <<>>
    /\ ~Unwrap(expansion).error

----------------------------------------------------------------------------
(* the method token of a route directive (specification SpecCtl)           *)

\* the name of a method in the wiring table, by its upper-case name
WiringName ==
    (<<"G","E","T">> :> <<"g","e","t">>) @@ (<<"P","O","S","T">> :> <<"p","o","s","t">>)
      @@ (<<"P","U","T">> :> <<"p","u","t">>)
      @@ (<<"P","A","T","C","H">> :> <<"p","a","t","c","h">>)
      @@ (<<"D","E","L","E","T","E">> :> <<"d","e","l","e","t","e">>)
      @@ (<<"H","E","A","D">> :> <<"h","e","a","d">>)
      @@ (<<"O","P","T","I","O","N","S">> :> <<"o","p","t","i","o","n","s">>)
      @@ (<<"T","R","A","C","E">> :> <<"t","r","a","c","e">>)

\* the impl block with every method token written in upper case
UpperCased ==
    [i \in 1..Len(items) |->
        IF IsRouted(items[i])
        THEN [items[i] EXCEPT !.attrs[RoutePosition(items[i].attrs)].tokens.method
                                 = to_uppercase(@)]
        ELSE items[i]]

\* C30: a route directive with a path is accepted exactly when the upper
\* case of its method token is one of the eight method names, whatever the
\* case of the token; the expansion is then that of the upper-case token,
\* with the lower-case name in the wiring table and the upper-case name in
\* openapi_routes; every other token is rejected with "Invalid HTTP
\* method"; from_ident of to_axum_method of each of the eight methods is
\* that method.
C30_MethodTokenCaseInsensitive ==
    /\ \A m \in HttpMethods :
          /\ from_ident(to_axum_method(m)) = Some(m)
          /\ to_uppercase(to_axum_method(m)) \in MethodTokens
    /\ \A i \in 1..Len(items) :
          IsRouted(items[i])
          => LET tok == DirectiveOf(items[i]).method
                 r == parse_route_attr(items[i].attrs[RoutePosition(items[i].attrs)])
             IN /\ to_uppercase(tok) \notin MethodTokens
                   => (~r.ok /\ r.err = "Invalid HTTP method")
                /\ (to_uppercase(tok) \in MethodTokens /\ IsSome(DirectiveOf(items[i]).path))
                   => /\ r.ok
                      /\ to_axum_method(Unwrap(r.info).method) = WiringName[to_uppercase(tok)]
    /\ IsSome(route_out)
       => \A i \in 1..Len(items) :
             (IsRouted(items[i]) /\ items[i].sig.ident = Unwrap(route_out).fn_name)
             => LET tok == DirectiveOf(items[i]).method
                    out == Unwrap(route_out).out
                IN /\ to_uppercase(tok) \notin MethodTokens
                      => out.compile_error = Some("Invalid HTTP method")
                   /\ (to_uppercase(tok) \in MethodTokens /\ IsSome(DirectiveOf(items[i]).path))
                      => /\ out.compile_error = None
                         /\ Unwrap(out.route_const).method = WiringName[to_uppercase(tok)]
    /\ CtlExpanded
       => LET e == Unwrap(expansion)
              u == controller_impl(args, self_ty, UpperCased)
          IN /\ e.route_registrations = u.route_registrations
             /\ e.openapi_routes = u.openapi_routes
             /\ e.utoipa_wrappers = u.utoipa_wrappers
             /\ Len(e.route_registrations) = Len(ParsedItems)
             /\ \A i \in 1..Len(ParsedItems) :
                   LET tok == DirectiveOf(ParsedItems[i]).method IN
                   /\ i <= Len(e.route_registrations)
                   /\ e.route_registrations[i].method = WiringName[to_uppercase(tok)]
                   /\ e.openapi_routes[i].method = to_uppercase(tok)

\* the token pAtCh: accepted on its own and in the controller, wired as
\* patch and listed as PATCH
C30_Witness ==
    /\ CtlExpanded /\ IsSome(route_out)
    /\ Len(items) = 1
    /\ DirectiveOf(items[1]).method = <<"p","A","t","C","h">>
    /\ Unwrap(route_out).out.compile_error = None
    /\ Unwrap(Unwrap(route_out).out.route_const).method = <<"p","a","t","c","h">>
    /\ Len(Unwrap(expansion).route_registrations) = 1
    /\ Unwrap(expansion).route_registrations[1].method = <<"p","a","t","c","h">>
    /\ Unwrap(expansion).openapi_routes[1].method = <<"P","A","T","C","H">>

====
